---------------------------- MODULE Spec2Model ----------------------------
(***************************************************************************)
(* Model of tools/sparse.c (LASAGNA): compressed-column sparse matrices,   *)
(* the left-looking LU factorization with its refactorization and solve,   *)
(* the approximate-minimum-degree ordering, the A+A' pattern builder and   *)
(* the first-fit column grouping.                                          *)
(*                                                                         *)
(* C arrays are functions on 0..len-1, so every index of the model is the  *)
(* index of the code.  Reading an array outside its domain is an error of  *)
(* the model, as it is undefined behaviour of the code.                    *)
(***************************************************************************)
EXTENDS Integers, Sequences, FiniteSets, TLC

VARIABLES
  G,        \* column grouping: the pattern handed to the grouper (Ap, Ai, n)
  col_g,    \* column grouping: the caller's group-number array
  filled,   \* column grouping: the caller's work array
  gret,     \* column grouping: the value returned
  gop,      \* column grouping: which grouper ran last
  Apat,     \* pattern union: the square pattern A handed in (Ap, Ai, n)
  C,        \* pattern union: the pattern handed back (*Cp, *Ci, its size)
  pop,      \* pattern union: "none" before the call, then the function
  mat,      \* LU: the caller's matrix A, as last handed to sp_ludcmp/sp_refactor
  num,      \* LU: the numeric factorization context N (sp_num)
  tol,      \* LU: the pivot tolerance pivtol the caller factorizes with
  fact,     \* LU: [ret, k] of the last sp_ludcmp: value returned, step left at
  lop,      \* LU: the function that ran last
  hadfact,  \* LU: the sp_ludcmp that failed last began with a valid factorization
  rhs,      \* LU: the right-hand side b handed to sp_lusolve since factorizing
  sol,      \* LU: the caller's solution array x for it
  Cin,      \* AMD: the pattern handed to sp_amd (n, Cp, Ci, nzmax)
  amd,      \* AMD: the arrays and locals of the running sp_amd (P is last)
  apc,      \* AMD: where sp_amd is: "call", "while", "return"
  Rg,       \* reach: the graph G (n, Gp, Gi) and the row map pinv
  Rb,       \* reach: the matrix B (Bp, Bi) a column of which is reached from
  Rout      \* reach: the column k of the last reachr, its top and its xik

vars == <<G, col_g, filled, gret, gop, Apat, C, pop,
          mat, num, tol, fact, lop, hadfact, rhs, sol, Cin, amd, apc,
          Rg, Rb, Rout>>

luvars == <<mat, num, tol, fact, lop, hadfact, rhs, sol>>

gvars == <<G, col_g, filled, gret, gop>>
pvars == <<Apat, C, pop>>
avars == <<Cin, amd, apc>>
rvars == <<Rg, Rb, Rout>>

---------------------------------------------------------------------------
(* Bounds of the model.                                                    *)

\* Largest number of columns of a pattern handed to the column grouper.
MaxCols == 3

\* Largest dimension of a pattern handed to get_pattern_A_plus_AT.
MaxDim == 3

\* The values stored in a matrix handed to the LU routines are the integers
\* -1..MaxVal (0 is a stored zero).
MaxVal == 2

\* The right-hand sides handed to sp_lusolve have entries in 0..MaxRhs.
MaxRhs == 1

\* The graphs handed to reachr have at most MaxReach nodes.
MaxReach == 3

---------------------------------------------------------------------------
(* Compressed-column patterns.                                             *)

RECURSIVE Concat(_, _)
\* The concatenation of the sequences cols[0], ..., cols[j-1].
Concat(cols, j) == IF j = 0 THEN <<>> ELSE Concat(cols, j - 1) \o cols[j - 1]

\* The compressed-column pattern whose column j stores the row indices
\* cols[j] in that order: Ap[j] is where column j starts in Ai.
Pattern(n, cols) ==
  [n  |-> n,
   Ap |-> [j \in 0..n |-> Len(Concat(cols, j))],
   Ai |-> [i \in 0..(Len(Concat(cols, n)) - 1) |-> Concat(cols, n)[i + 1]]]

RECURSIVE SortedSeq(_)
\* The elements of a finite set of integers in increasing order.
SortedSeq(S) ==
  IF S = {} THEN <<>>
  ELSE LET m == CHOOSE a \in S : \A c \in S : a <= c
       IN  <<m>> \o SortedSeq(S \ {m})

\* Every n-by-n pattern whose columns hold increasing row indices.
SortedPatterns(n) ==
  {Pattern(n, [j \in 0..(n - 1) |-> SortedSeq(rows[j])]) :
     rows \in [0..(n - 1) -> SUBSET (0..(n - 1))]}

\* The positions of column j in the row-index array.
ColRange(Ap, j) == Ap[j]..(Ap[j + 1] - 1)

\* The set of rows stored in column j.
ColRows(P, j) == {P.Ai[i] : i \in ColRange(P.Ap, j)}

---------------------------------------------------------------------------
(* Column grouping: column_grouping, column_grouping2, get_column_grouping *)

\* for(i=0;i<neq;i++) col_g[i]=-1;   for(i=0;i<neq;i++) filled[i]=0;
AllSet(neq, v) == [i \in 0..(neq - 1) |-> v]

\* The loop over the rows of testcol that clears `fitted' and breaks at the
\* first row already filled (column_grouping tests filled[..] == 1).
Fitted(Ap, Ai, fil, testcol) ==
  \A i \in ColRange(Ap, testcol) : ~(fil[Ai[i]] = 1)

\* The same loop in column_grouping2 / get_column_grouping (filled[..] != 0).
Fitted2(Ap, Ai, fil, testcol) ==
  \A i \in ColRange(Ap, testcol) : ~(fil[Ai[i]] # 0)

\* FillCol with the marking of the admitted column's rows left out.
FillCol_skip(Ap, Ai, fil, col) == fil

\* for(i=Ap[col];i<Ap[col+1];i++) filled[Ai[i]] = 1;
FillCol(Ap, Ai, fil, col) ==
  [r \in DOMAIN fil |->
     IF \E i \in ColRange(Ap, col) : Ai[i] = r THEN 1 ELSE fil[r]]

RECURSIVE cg_testloop(_, _, _, _, _, _)
\* column_grouping, the loop over testcol: try to fit every ungrouped
\* column after curcol into group groupnum.  s = [col_g, filled].
cg_testloop(Ap, Ai, neq, groupnum, testcol, s) ==
  IF ~(testcol < neq) THEN s
  ELSE IF s.col_g[testcol] = -1 /\ Fitted(Ap, Ai, s.filled, testcol)
       THEN cg_testloop(Ap, Ai, neq, groupnum, testcol + 1,
              [col_g  |-> [s.col_g EXCEPT ![testcol] = groupnum],
               filled |-> FillCol(Ap, Ai, s.filled, testcol)])
       ELSE cg_testloop(Ap, Ai, neq, groupnum, testcol + 1, s)

RECURSIVE cg_curloop(_, _, _, _, _)
\* column_grouping, the loop over curcol.  s = [col_g, filled, groupnum].
cg_curloop(Ap, Ai, neq, curcol, s) ==
  IF ~(curcol < neq) THEN s
  ELSE IF s.col_g[curcol] = -1
       THEN LET groupnum == s.groupnum + 1
                s1 == [col_g  |-> [s.col_g EXCEPT ![curcol] = groupnum],
                       filled |-> FillCol(Ap, Ai, AllSet(neq, 0), curcol)]
                s2 == cg_testloop(Ap, Ai, neq, groupnum, curcol + 1, s1)
            IN  cg_curloop(Ap, Ai, neq, curcol + 1,
                  [col_g |-> s2.col_g, filled |-> s2.filled,
                   groupnum |-> groupnum])
       ELSE cg_curloop(Ap, Ai, neq, curcol + 1, s)

\* int column_grouping(sp_mat *G, int *col_g, int *filled): the arrays as
\* they are left and the value returned.  fil0 is the caller's work array.
column_grouping(P, fil0) ==
  LET s == cg_curloop(P.Ap, P.Ai, P.n, 0,
             [col_g |-> AllSet(P.n, -1), filled |-> fil0, groupnum |-> -1])
  IN  [col_g |-> s.col_g, filled |-> s.filled, ret |-> s.groupnum]

RECURSIVE cg2_testloop(_, _, _, _, _, _)
\* column_grouping2, the loop over testcol of one group.
\* s = [col_g, filled, done].
cg2_testloop(Ap, Ai, neq, groupnum, testcol, s) ==
  IF ~(testcol < neq) THEN s
  ELSE IF s.col_g[testcol] # -1
       THEN cg2_testloop(Ap, Ai, neq, groupnum, testcol + 1, s)
       ELSE IF Fitted2(Ap, Ai, s.filled, testcol)
            THEN cg2_testloop(Ap, Ai, neq, groupnum, testcol + 1,
                   [col_g  |-> [s.col_g EXCEPT ![testcol] = groupnum],
                    filled |-> FillCol(Ap, Ai, s.filled, testcol),
                    done   |-> FALSE])
            ELSE cg2_testloop(Ap, Ai, neq, groupnum, testcol + 1,
                   [s EXCEPT !.done = FALSE])

RECURSIVE cg2_grouploop(_, _, _, _, _)
\* column_grouping2, the loop over groupnum; `break' when a pass finds no
\* ungrouped column.  s = [col_g, filled]; yields groupnum as well.
cg2_grouploop(Ap, Ai, neq, groupnum, s) ==
  IF ~(groupnum < neq)
  THEN [col_g |-> s.col_g, filled |-> s.filled, groupnum |-> groupnum]
  ELSE LET s1 == cg2_testloop(Ap, Ai, neq, groupnum, 0,
                   [col_g |-> s.col_g, filled |-> AllSet(neq, 0),
                    done |-> TRUE])
       IN  IF s1.done
           THEN [col_g |-> s1.col_g, filled |-> s1.filled,
                 groupnum |-> groupnum]
           ELSE cg2_grouploop(Ap, Ai, neq, groupnum + 1,
                  [col_g |-> s1.col_g, filled |-> s1.filled])

\* get_column_grouping returning groupnum, not groupnum-1.
get_column_grouping_count(Ap, Ai, neq, fil0) ==
  LET s == cg2_grouploop(Ap, Ai, neq, 0,
             [col_g |-> AllSet(neq, -1), filled |-> fil0])
  IN  [col_g |-> s.col_g, filled |-> s.filled, ret |-> s.groupnum]

\* int get_column_grouping(int *Ap, int *Ai, size_t neq, int *col_g,
\* int *filled)
get_column_grouping(Ap, Ai, neq, fil0) ==
  LET s == cg2_grouploop(Ap, Ai, neq, 0,
             [col_g |-> AllSet(neq, -1), filled |-> fil0])
  IN  [col_g |-> s.col_g, filled |-> s.filled, ret |-> s.groupnum - 1]

\* int column_grouping2(sp_mat *G, int *col_g, int *filled): the same text
\* as get_column_grouping, on the fields of G.
column_grouping2(P, fil0) ==
  LET s == cg2_grouploop(P.Ap, P.Ai, P.n, 0,
             [col_g |-> AllSet(P.n, -1), filled |-> fil0])
  IN  [col_g |-> s.col_g, filled |-> s.filled, ret |-> s.groupnum - 1]

---------------------------------------------------------------------------
(* The column grouper as a state machine: the caller hands a pattern and   *)
(* two arrays of neq ints, and one of the three groupers fills them.       *)

\* What the caller's arrays hold before a grouper has run: the caller has
\* allocated them; every grouper overwrites col_g before it reads it and
\* clears filled before it reads it, so the contents do not matter.
GroupInit ==
  /\ G \in UNION {SortedPatterns(n) : n \in 0..MaxCols}
  /\ col_g = AllSet(G.n, -1)
  /\ filled = AllSet(G.n, 0)
  /\ gret = 0
  /\ gop = "none"

ColumnGrouping ==
  /\ gop = "none"
  /\ LET r == column_grouping(G, filled)
     IN  /\ col_g' = r.col_g
         /\ filled' = r.filled
         /\ gret' = r.ret
  /\ gop' = "column_grouping"
  /\ UNCHANGED <<G, pvars, luvars, avars, rvars>>

ColumnGrouping2 ==
  /\ gop = "none"
  /\ LET r == column_grouping2(G, filled)
     IN  /\ col_g' = r.col_g
         /\ filled' = r.filled
         /\ gret' = r.ret
  /\ gop' = "column_grouping2"
  /\ UNCHANGED <<G, pvars, luvars, avars, rvars>>

GetColumnGrouping ==
  /\ gop = "none"
  /\ LET r == get_column_grouping(G.Ap, G.Ai, G.n, filled)
     IN  /\ col_g' = r.col_g
         /\ filled' = r.filled
         /\ gret' = r.ret
  /\ gop' = "get_column_grouping"
  /\ UNCHANGED <<G, pvars, luvars, avars, rvars>>

GroupNext == ColumnGrouping \/ ColumnGrouping2 \/ GetColumnGrouping

---------------------------------------------------------------------------
(* get_pattern_A_plus_AT                                                   *)

RECURSIVE pat_count(_, _, _, _)
\* for (i=0; i<Ap[n]; i++) w_and_Cp[Ai[i]]++;
pat_count(Ai, nzA, i, w) ==
  IF ~(i < nzA) THEN w
  ELSE pat_count(Ai, nzA, i + 1, [w EXCEPT ![Ai[i]] = @ + 1])

RECURSIVE pat_cumsum(_, _, _, _)
\* for (j=0, nz=0; j<n; j++){ Tp[j]=nz; nz+=w_and_Cp[j]; w_and_Cp[j]=Tp[j]; }
\* Tp[n] = nz;      s = [w, Tp, nz]
pat_cumsum(n, j, s, dummy) ==
  IF ~(j < n) THEN [s EXCEPT !.Tp[n] = s.nz]
  ELSE pat_cumsum(n, j + 1,
         [w  |-> [s.w EXCEPT ![j] = s.nz],
          Tp |-> [s.Tp EXCEPT ![j] = s.nz],
          nz |-> s.nz + s.w[j]], dummy)

RECURSIVE pat_scatter_col_row(_, _, _, _, _)
\* pat_scatter_col writing the entry's row, not its column, into Ti.
pat_scatter_col_row(Ai, j, i, iend, s) ==
  IF ~(i < iend) THEN s
  ELSE pat_scatter_col_row(Ai, j, i + 1, iend,
         [w  |-> [s.w EXCEPT ![Ai[i]] = @ + 1],
          Ti |-> [s.Ti EXCEPT ![s.w[Ai[i]]] = Ai[i]]])

RECURSIVE pat_scatter_col(_, _, _, _, _)
\* for (i=Ap[j]; i<Ap[j+1]; i++){ q=w_and_Cp[Ai[i]]; Ti[q]=j;
\*                                w_and_Cp[Ai[i]]++; }     s = [w, Ti]
pat_scatter_col(Ai, j, i, iend, s) ==
  IF ~(i < iend) THEN s
  ELSE pat_scatter_col(Ai, j, i + 1, iend,
         [w  |-> [s.w EXCEPT ![Ai[i]] = @ + 1],
          Ti |-> [s.Ti EXCEPT ![s.w[Ai[i]]] = j]])

RECURSIVE pat_scatter(_, _, _, _, _)
\* for (j=0; j<n; j++) the loop above
pat_scatter(Ap, Ai, n, j, s) ==
  IF ~(j < n) THEN s
  ELSE pat_scatter(Ap, Ai, n, j + 1,
         pat_scatter_col(Ai, j, Ap[j], Ap[j + 1], s))

RECURSIVE pat_merge_dup(_, _, _, _, _, _, _)
\* pat_merge without the branch for equal indices: an index stored in both
\* columns is written twice.
pat_merge_dup(Ai, Ti, a, aend, t, tend, s) ==
  IF a < aend /\ t < tend
  THEN IF Ai[a] <= Ti[t]
       THEN pat_merge_dup(Ai, Ti, a + 1, aend, t, tend,
              [Ci |-> [s.Ci EXCEPT ![s.nz] = Ai[a]], nz |-> s.nz + 1])
       ELSE pat_merge_dup(Ai, Ti, a, aend, t + 1, tend,
              [Ci |-> [s.Ci EXCEPT ![s.nz] = Ti[t]], nz |-> s.nz + 1])
  ELSE IF a < aend
       THEN pat_merge_dup(Ai, Ti, a + 1, aend, t, tend,
              [Ci |-> [s.Ci EXCEPT ![s.nz] = Ai[a]], nz |-> s.nz + 1])
       ELSE IF t < tend
            THEN pat_merge_dup(Ai, Ti, a, aend, t + 1, tend,
                   [Ci |-> [s.Ci EXCEPT ![s.nz] = Ti[t]], nz |-> s.nz + 1])
            ELSE s

RECURSIVE pat_merge(_, _, _, _, _, _, _)
\* The merge of column j of A (positions a..aend-1 of Ai) with column j of
\* T (positions t..tend-1 of Ti) into Ci_loc from position nz on: the while
\* loop and the two loops that write the rest.  s = [Ci, nz]
pat_merge(Ai, Ti, a, aend, t, tend, s) ==
  IF a < aend /\ t < tend
  THEN IF Ai[a] < Ti[t]
       THEN pat_merge(Ai, Ti, a + 1, aend, t, tend,
              [Ci |-> [s.Ci EXCEPT ![s.nz] = Ai[a]], nz |-> s.nz + 1])
       ELSE IF Ti[t] < Ai[a]
            THEN pat_merge(Ai, Ti, a, aend, t + 1, tend,
                   [Ci |-> [s.Ci EXCEPT ![s.nz] = Ti[t]], nz |-> s.nz + 1])
            ELSE pat_merge(Ai, Ti, a + 1, aend, t + 1, tend,
                   [Ci |-> [s.Ci EXCEPT ![s.nz] = Ai[a]], nz |-> s.nz + 1])
  ELSE IF a < aend
       THEN pat_merge(Ai, Ti, a + 1, aend, t, tend,
              [Ci |-> [s.Ci EXCEPT ![s.nz] = Ai[a]], nz |-> s.nz + 1])
       ELSE IF t < tend
            THEN pat_merge(Ai, Ti, a, aend, t + 1, tend,
                   [Ci |-> [s.Ci EXCEPT ![s.nz] = Ti[t]], nz |-> s.nz + 1])
            ELSE s

RECURSIVE pat_add(_, _, _, _, _, _, _)
\* for (j=0; j<n; j++){ merge column j; w_and_Cp[j+1] = nz; }
\* s = [Ci, nz, w]
pat_add(Ap, Ai, Tp, Ti, n, j, s) ==
  IF ~(j < n) THEN s
  ELSE LET m == pat_merge(Ai, Ti, Ap[j], Ap[j + 1], Tp[j], Tp[j + 1],
                  [Ci |-> s.Ci, nz |-> s.nz])
       IN  pat_add(Ap, Ai, Tp, Ti, n, j + 1,
             [Ci |-> m.Ci, nz |-> m.nz, w |-> [s.w EXCEPT ![j + 1] = m.nz]])

\* What an array element holds that the code has allocated and not written.
Unset == -9

\* int get_pattern_A_plus_AT(int *Ap, int *Ai, int n, int **Cp, int **Ci,
\* ErrorMsg): *Cp, *Ci and the number of ints *Ci is reallocated to.
get_pattern_A_plus_AT(Ap, Ai, n) ==
  LET nzA == Ap[n]
      w0  == pat_count(Ai, nzA, 0, [i \in 0..n |-> 0])
      cs  == pat_cumsum(n, 0,
               [w |-> w0, Tp |-> [i \in 0..n |-> Unset], nz |-> 0], 0)
      sc  == pat_scatter(Ap, Ai, n, 0,
               [w |-> cs.w, Ti |-> [i \in 0..(nzA - 1) |-> Unset]])
      ad  == pat_add(Ap, Ai, cs.Tp, sc.Ti, n, 0,
               [Ci |-> [i \in 0..(2 * nzA - 1) |-> Unset], nz |-> 0,
                w  |-> [sc.w EXCEPT ![0] = 0]])
      cap == ad.nz + (ad.nz \div 5) + 2 * n
  IN  [Cp |-> ad.w,
       Ci |-> [i \in 0..(cap - 1) |->
                 IF i < 2 * nzA THEN ad.Ci[i] ELSE Unset],
       nzmax |-> cap]

\* The caller's pattern before the call; *Cp and *Ci are not yet set.
PatInit ==
  /\ Apat \in UNION {SortedPatterns(n) : n \in 1..MaxDim}
  /\ C = [Cp |-> <<>>, Ci |-> <<>>, nzmax |-> 0]
  /\ pop = "none"

GetPatternAplusAT ==
  /\ pop = "none"
  /\ C' = get_pattern_A_plus_AT(Apat.Ap, Apat.Ai, Apat.n)
  /\ pop' = "get_pattern_A_plus_AT"
  /\ UNCHANGED <<Apat, gvars, luvars, avars, rvars>>

---------------------------------------------------------------------------
(* Numbers.  A double is modelled by an exact rational <<num, den>> in      *)
(* lowest terms with den > 0, or by one of the IEEE specials <<1,0>> (+inf),*)
(* <<-1,0>> (-inf), <<0,0>> (NaN): arithmetic is exact, so rounding and     *)
(* overflow are left out, and the two zeros are one.                        *)

RECURSIVE Gcd(_, _)
Gcd(a, c) == IF c = 0 THEN a ELSE Gcd(c, a % c)

Abs(i) == IF i < 0 THEN -i ELSE i
Sgn(i) == IF i < 0 THEN -1 ELSE IF i > 0 THEN 1 ELSE 0

\* The rational nu/de, de > 0, in lowest terms.
Q(nu, de) == LET g == Gcd(Abs(nu), de) IN <<nu \div g, de \div g>>

QInt(i) == <<i, 1>>
QZero == <<0, 1>>
QOne == <<1, 1>>
QNaN == <<0, 0>>

QIsNaN(a) == a = QNaN
QIsFinite(a) == a[2] > 0

\* a + c
QAdd(a, c) ==
  IF QIsNaN(a) \/ QIsNaN(c) THEN QNaN
  ELSE IF ~QIsFinite(a) THEN
         (IF ~QIsFinite(c) /\ c # a THEN QNaN ELSE a)
  ELSE IF ~QIsFinite(c) THEN c
  ELSE Q(a[1] * c[2] + c[1] * a[2], a[2] * c[2])

\* a - c
QSub(a, c) == QAdd(a, <<-c[1], c[2]>>)

\* a * c
QMul(a, c) ==
  IF QIsNaN(a) \/ QIsNaN(c) THEN QNaN
  ELSE IF ~QIsFinite(a) \/ ~QIsFinite(c) THEN <<Sgn(a[1]) * Sgn(c[1]), 0>>
  ELSE Q(a[1] * c[1], a[2] * c[2])

\* a / c
QDiv(a, c) ==
  IF QIsNaN(a) \/ QIsNaN(c) THEN QNaN
  ELSE IF ~QIsFinite(c) THEN (IF QIsFinite(a) THEN QZero ELSE QNaN)
  ELSE IF c[1] = 0 THEN <<Sgn(a[1]), 0>>
  ELSE IF ~QIsFinite(a) THEN <<Sgn(a[1]) * Sgn(c[1]), 0>>
  ELSE Q(a[1] * c[2] * Sgn(c[1]), a[2] * Abs(c[1]))

\* fabs(a)
QAbs(a) == <<Abs(a[1]), a[2]>>

\* a < c; false when either is NaN
QLess(a, c) ==
  IF QIsNaN(a) \/ QIsNaN(c) \/ a = c THEN FALSE
  ELSE IF ~QIsFinite(a) THEN a[1] < 0
  ELSE IF ~QIsFinite(c) THEN c[1] > 0
  ELSE a[1] * c[2] < c[1] * a[2]

\* a <= c; false when either is NaN
QLeq(a, c) == ~QIsNaN(a) /\ ~QIsNaN(c) /\ (a = c \/ QLess(a, c))

---------------------------------------------------------------------------
(* Marks on column pointers (the macros of sparse.h, which is not among    *)
(* the sources: SPFLIP is the transform -(value)-2 the specification       *)
(* names, and the others are built on it).                                 *)

SPFLIP(i) == -i - 2
SPUNFLIP(i) == IF i < 0 THEN SPFLIP(i) ELSE i
SPMARKED(w, j) == w[j] < 0
SPMARK(w, j) == [w EXCEPT ![j] = SPFLIP(w[j])]

---------------------------------------------------------------------------
(* reachr, dfsr                                                            *)

RECURSIVE dfsr(_, _, _, _)
RECURSIVE dfsr_loop(_, _, _, _, _)
RECURSIVE reachr_unmark_short(_, _, _, _)

\* dfsr, the loop over the neighbours Gi[p], p1 <= p < p2.
\* s = [Gp, top, xik]
dfsr_loop(p, p2, Gi, pinv, s) ==
  IF ~(p < p2) THEN s
  ELSE LET i == Gi[p]
       IN  dfsr_loop(p + 1, p2, Gi, pinv,
             IF ~SPMARKED(s.Gp, i) THEN dfsr(i, Gi, pinv, s) ELSE s)

\* A variant of dfsr below that writes j to xik before it visits the
\* neighbours of j.
dfsr_first(j, Gi, pinv, s) ==
  LET jnew == pinv[j]
      s1 == [Gp |-> SPMARK(s.Gp, j), top |-> s.top - 1,
             xik |-> [s.xik EXCEPT ![s.top - 1] = j]]
  IN  IF jnew >= 0
      THEN dfsr_loop(SPUNFLIP(s1.Gp[jnew]), SPUNFLIP(s1.Gp[jnew + 1]),
                     Gi, pinv, s1)
      ELSE s1

\* void dfsr(int j, int *Gp, int *Gi, int *top, int *xik, int *pinv)
dfsr(j, Gi, pinv, s) ==
  LET jnew == pinv[j]
      s1 == [s EXCEPT !.Gp = SPMARK(s.Gp, j)]
      s2 == IF jnew >= 0
            THEN dfsr_loop(SPUNFLIP(s1.Gp[jnew]), SPUNFLIP(s1.Gp[jnew + 1]),
                           Gi, pinv, s1)
            ELSE s1
  IN  [Gp |-> s2.Gp, top |-> s2.top - 1,
       xik |-> [s2.xik EXCEPT ![s2.top - 1] = j]]

RECURSIVE reachr_loop(_, _, _, _, _, _)
\* reachr, the loop over the entries Bi[p] of column k of B.
reachr_loop(p, pend, Bi, Gi, pinv, s) ==
  IF ~(p < pend) THEN s
  ELSE reachr_loop(p + 1, pend, Bi, Gi, pinv,
         IF ~SPMARKED(s.Gp, Bi[p]) THEN dfsr(Bi[p], Gi, pinv, s) ELSE s)

\* A variant of reachr_unmark below that stops one node short.
reachr_unmark_short(p, Gncols, xik, Gp) ==
  IF ~(p < Gncols - 1) THEN Gp
  ELSE reachr_unmark_short(p + 1, Gncols, xik, SPMARK(Gp, xik[p]))

RECURSIVE reachr_unmark(_, _, _, _)
\* for (p=top; p<Gncols; p++) SPMARK(Gp, xik[p]);
reachr_unmark(p, Gncols, xik, Gp) ==
  IF ~(p < Gncols) THEN Gp
  ELSE reachr_unmark(p + 1, Gncols, xik, SPMARK(Gp, xik[p]))

\* int reachr(int Gncols, int *Bp, int *Bi, int *Gp, int *Gi, int k,
\* int *xik, int *pinv): the value returned (top) and the arrays written.
reachr(Gncols, Bp, Bi, Gp, Gi, k, xik, pinv) ==
  LET s == reachr_loop(Bp[k], Bp[k + 1], Bi, Gi, pinv,
             [Gp |-> Gp, top |-> Gncols, xik |-> xik])
  IN  [top |-> s.top, xik |-> s.xik,
       Gp |-> reachr_unmark(s.top, Gncols, s.xik, s.Gp)]

---------------------------------------------------------------------------
(* sp_splsolve                                                             *)

RECURSIVE spl_clear(_, _, _, _)
\* for (p=top; p<n; p++) x[xik[p]] = 0;
spl_clear(p, n, xik, x) ==
  IF ~(p < n) THEN x
  ELSE spl_clear(p + 1, n, xik, [x EXCEPT ![xik[p]] = QZero])

RECURSIVE spl_scatter(_, _, _, _, _)
\* for (p=Bp[k];p<Bp[k+1];p++) x[Bi[p]] = Bx[p];
spl_scatter(p, pend, Bi, Bx, x) ==
  IF ~(p < pend) THEN x
  ELSE spl_scatter(p + 1, pend, Bi, Bx, [x EXCEPT ![Bi[p]] = Bx[p]])

RECURSIVE spl_update(_, _, _, _, _, _)
\* for( ;p<q; p++) x[Gi[p]] -= Gx[p] * x[j];
spl_update(p, q, Gi, Gx, j, x) ==
  IF ~(p < q) THEN x
  ELSE spl_update(p + 1, q, Gi, Gx, j,
         [x EXCEPT ![Gi[p]] = QSub(x[Gi[p]], QMul(Gx[p], x[j]))])

RECURSIVE spl_solve(_, _, _, _, _, _)
\* for (px=top; px<n; px++){ j=xik[px]; J=pinv[j]; if (J<0) continue;
\*   x[j] /= Gx[Gp[J]]; ... }            Gm = [Ap, Ai, Ax]
spl_solve(px, n, Gm, xik, pinv, x) ==
  IF ~(px < n) THEN x
  ELSE LET j == xik[px]
           J == pinv[j]
       IN  IF J < 0 THEN spl_solve(px + 1, n, Gm, xik, pinv, x)
           ELSE LET x1 == [x EXCEPT ![j] = QDiv(x[j], Gm.Ax[Gm.Ap[J]])]
                IN  spl_solve(px + 1, n, Gm, xik, pinv,
                      spl_update(Gm.Ap[J] + 1, Gm.Ap[J + 1], Gm.Ai, Gm.Ax,
                                 j, x1))

\* int sp_splsolve(sp_mat *G, sp_mat *B, int k, int *xik, int top,
\* double *x, int *pinv): x as it is left.  n = G->ncols.
sp_splsolve(n, Gm, B, k, xik, top, x, pinv) ==
  LET x1 == spl_clear(top, n, xik, x)
      x2 == spl_scatter(B.Ap[k], B.Ap[k + 1], B.Ai, B.Ax, x1)
  IN  spl_solve(top, n, Gm, xik, pinv, x2)

---------------------------------------------------------------------------
(* sp_ludcmp                                                               *)
(*                                                                         *)
(* The context N is the record [n, L, U, xi, topvec, pinv, p, q, w] with   *)
(* L and U records [Ap, Ai, Ax]; q is <<>> for a null pointer.  A matrix   *)
(* is a record [n, Ap, Ai, Ax].                                            *)

\* col = q ? (q[k]) : k;
ColOf(q, k) == IF q # <<>> THEN q[k] ELSE k

RECURSIVE lu_findpivot(_, _, _, _, _, _)
\* The pivot search: for(p=top; p<n; p++){ i = xi[k][p]; if (pinv[i]<0)
\* {t = fabs(x[i]); if (t>a){a = t; ipiv = i;}} else {Ui[unz] = pinv[i];
\* Ux[unz] = x[i]; unz++;} }             s = [ipiv, a, Ui, Ux, unz]
lu_findpivot(p, n, xik, x, pinv, s) ==
  IF ~(p < n) THEN s
  ELSE LET i == xik[p]
       IN  IF pinv[i] < 0
           THEN LET t == QAbs(x[i])
                IN  lu_findpivot(p + 1, n, xik, x, pinv,
                      IF QLess(s.a, t) THEN [s EXCEPT !.a = t, !.ipiv = i]
                      ELSE s)
           ELSE lu_findpivot(p + 1, n, xik, x, pinv,
                  [s EXCEPT !.Ui[s.unz] = pinv[i], !.Ux[s.unz] = x[i],
                            !.unz = s.unz + 1])

RECURSIVE lu_storeL(_, _, _, _, _, _)
\* for (p=top; p<n; p++){ i = xi[k][p]; if (pinv[i]<0){ Li[lnz] = i;
\* Lx[lnz] = x[i]/pivot; lnz++; } x[i] = 0; }     s = [Li, Lx, lnz, x]
lu_storeL(p, n, xik, pinv, pivot, s) ==
  IF ~(p < n) THEN s
  ELSE LET i == xik[p]
           s1 == IF pinv[i] < 0
                 THEN [s EXCEPT !.Li[s.lnz] = i,
                                !.Lx[s.lnz] = QDiv(s.x[i], pivot),
                                !.lnz = s.lnz + 1]
                 ELSE s
       IN  lu_storeL(p + 1, n, xik, pinv, pivot,
             [s1 EXCEPT !.x[i] = QZero])

\* The pivot rule of sp_ludcmp applied to the maximal candidate (ipiv, a):
\* if ((pinv[col]<0) && (fabs(x[col])>=a*pivtol)) ipiv = col;
lu_choose(ipiv, a, col, x, pinv, pivtol) ==
  IF pinv[col] < 0 /\ QLeq(QMul(a, pivtol), QAbs(x[col])) THEN col ELSE ipiv

\* A variant of the test below that leaves out a<=0.
lu_singular_nopivot(ipiv, a) == ipiv = -1

\* if ((ipiv == -1)||(a<=0)) return _FAILURE_;
lu_singular(ipiv, a) == ipiv = -1 \/ QLeq(a, QZero)

RECURSIVE lu_loop(_, _, _, _)

\* A variant of lu_store below that leaves out p[k] = ipiv.
lu_store_nop(k, A, pivtol, s1, unz, ipiv) ==
  lu_loop(k + 1, A, pivtol,
    lu_storeL(s1.topvec[k], A.n, s1.xi[k],
              [s1.pinv EXCEPT ![ipiv] = k], s1.x[ipiv],
              [s1 EXCEPT !.Ui[unz] = k, !.Ux[unz] = s1.x[ipiv],
                         !.unz = unz + 1,
                         !.pinv = [s1.pinv EXCEPT ![ipiv] = k],
                         !.Li[s1.lnz] = ipiv, !.Lx[s1.lnz] = QOne,
                         !.lnz = s1.lnz + 1]))

\* The end of step k once the pivot row ipiv is chosen: pivot = x[ipiv];
\* Ui[unz] = k; Ux[unz++] = pivot; pinv[ipiv] = k; p[k] = ipiv;
\* Li[lnz] = ipiv; Lx[lnz++] = 1; and the loop that stores column k of L.
\* s1 is the state of the loop after the pivot search.
lu_store(k, A, pivtol, s1, unz, ipiv) ==
  lu_loop(k + 1, A, pivtol,
    lu_storeL(s1.topvec[k], A.n, s1.xi[k],
              [s1.pinv EXCEPT ![ipiv] = k], s1.x[ipiv],
              [s1 EXCEPT !.Ui[unz] = k, !.Ux[unz] = s1.x[ipiv],
                         !.unz = unz + 1,
                         !.pinv = [s1.pinv EXCEPT ![ipiv] = k],
                         !.pvec[k] = ipiv,
                         !.Li[s1.lnz] = ipiv, !.Lx[s1.lnz] = QOne,
                         !.lnz = s1.lnz + 1]))

\* A variant of lu_pivot below that writes p[k] before the test for a
\* singular matrix.
lu_pivot_early(k, A, pivtol, s, s1, f) ==
  IF lu_singular(f.ipiv, f.a)
  THEN [s1 EXCEPT !.Ui = f.Ui, !.Ux = f.Ux, !.failed = TRUE,
                  !.pvec[k] = f.ipiv]
  ELSE lu_store(k, A, pivtol, [s1 EXCEPT !.Ui = f.Ui, !.Ux = f.Ux],
                f.unz,
                lu_choose(f.ipiv, f.a, ColOf(s.q, k), s1.x, s.pinv, pivtol))

\* Step k after the pivot search f = [ipiv, a, Ui, Ux, unz]: the test for a
\* singular matrix and the choice of the pivot row.
lu_pivot(k, A, pivtol, s, s1, f) ==
  IF lu_singular(f.ipiv, f.a)
  THEN [s1 EXCEPT !.Ui = f.Ui, !.Ux = f.Ux, !.failed = TRUE]
  ELSE lu_store(k, A, pivtol, [s1 EXCEPT !.Ui = f.Ui, !.Ux = f.Ux],
                f.unz,
                lu_choose(f.ipiv, f.a, ColOf(s.q, k), s1.x, s.pinv, pivtol))

\* Step k after the triangular solve has left x: the pivot search.
lu_search(k, A, pivtol, s, s1) ==
  lu_pivot(k, A, pivtol, s, s1,
    lu_findpivot(s1.topvec[k], A.n, s1.xi[k], s1.x, s.pinv,
      [ipiv |-> -1, a |-> QInt(-1), Ui |-> s.Ui, Ux |-> s.Ux,
       unz |-> s.unz]))

\* Step k after r = reachr(...): xi[k] and topvec[k] are written, L->Ap is
\* as reachr has left it, and sp_splsolve computes x.
lu_solve(k, A, pivtol, s, r) ==
  lu_search(k, A, pivtol, s,
    [s EXCEPT !.Lp = r.Gp, !.Up[k] = s.unz,
              !.xi[k] = r.xik, !.topvec[k] = r.top, !.k = k,
              !.x = sp_splsolve(A.n, [Ap |-> r.Gp, Ai |-> s.Li, Ax |-> s.Lx],
                                A, ColOf(s.q, k), r.xik, r.top, s.x, s.pinv)])

\* The loop for(k=0; k<n; k++) of sp_ludcmp, from step k on: Lp[k] = lnz;
\* Up[k] = unz; col = q ? q[k] : k; top = reachr(...), and the rest of the
\* step.
\* s = [Lp, Li, Lx, Up, Ui, Ux, lnz, unz, x, pinv, pvec, xi, topvec,
\*      q, failed, k]
lu_loop(k, A, pivtol, s) ==
  IF ~(k < A.n) THEN [s EXCEPT !.k = k]
  ELSE lu_solve(k, A, pivtol, s,
         reachr(A.n, A.Ap, A.Ai, [s.Lp EXCEPT ![k] = s.lnz], s.Li,
                ColOf(s.q, k), s.xi[k], s.pinv))

\* What an array the code has allocated holds where it has not been
\* written: maxnz = n*(n+1)/2 elements of L->Ai, L->Ax, U->Ai, U->Ax.
MaxNz(n) == (n * (n + 1)) \div 2
UnsetArr(len) == [i \in 0..(len - 1) |-> Unset]

\* The same for an array of doubles: a value that is no number, so that
\* arithmetic on it is an error.
UnsetDblArr(len) == [i \in 0..(len - 1) |-> <<Unset>>]

\* A variant of lu_remap below that leaves the row indices as they are.
lu_remap_none(Li, lnz, pinv) == Li

\* for(p=0; p<lnz; p++) Li[p] = pinv[Li[p]];
lu_remap(Li, lnz, pinv) ==
  [i \in DOMAIN Li |-> IF i < lnz THEN pinv[Li[i]] ELSE Li[i]]

SUCCESS == "_SUCCESS_"
FAILURE == "_FAILURE_"

\* The end of sp_ludcmp, s being the state in which the loop was left: on
\* failure the function returns at once; on success Lp[n] = lnz,
\* Up[n] = unz and the row indices of L are mapped through pinv.
lu_finish(N, n, s) ==
  [ret |-> IF ~s.failed THEN SUCCESS ELSE FAILURE,
   k   |-> s.k,
   N   |-> [n |-> N.n,
            L |-> [Ap |-> IF ~s.failed THEN [s.Lp EXCEPT ![n] = s.lnz]
                          ELSE s.Lp,
                   Ai |-> IF ~s.failed THEN lu_remap(s.Li, s.lnz, s.pinv)
                          ELSE s.Li,
                   Ax |-> s.Lx],
            U |-> [Ap |-> IF ~s.failed THEN [s.Up EXCEPT ![n] = s.unz]
                          ELSE s.Up,
                   Ai |-> s.Ui, Ax |-> s.Ux],
            xi |-> s.xi, topvec |-> s.topvec, pinv |-> s.pinv,
            p |-> s.pvec, q |-> N.q, w |-> s.x]]

\* int sp_ludcmp(sp_num *N, sp_mat *A, double pivtol): the context as it
\* is left, the value returned and the step at which the loop was left.
\* sp_ludcmp writes L->Ai, L->Ax, U->Ai, U->Ax and each row xi[k] before it
\* reads them; what they held before the call is not read by any later call
\* either, and the model starts them unset.
sp_ludcmp(N, A, pivtol) ==
  lu_finish(N, A.n,
    lu_loop(0, A, pivtol,
      [Lp |-> [k \in 0..A.n |-> 0], Li |-> UnsetArr(MaxNz(A.n)),
       Lx |-> UnsetDblArr(MaxNz(A.n)),
       Up |-> N.U.Ap, Ui |-> UnsetArr(MaxNz(A.n)),
       Ux |-> UnsetDblArr(MaxNz(A.n)),
       lnz |-> 0, unz |-> 0,
       x |-> [i \in 0..(A.n - 1) |-> QZero],
       pinv |-> [i \in 0..(A.n - 1) |-> -1],
       pvec |-> N.p,
       xi |-> [k \in 0..(A.n - 1) |-> UnsetArr(A.n)],
       topvec |-> N.topvec, q |-> N.q, failed |-> FALSE, k |-> 0]))

---------------------------------------------------------------------------
(* sp_lusolve                                                              *)

RECURSIVE lus_permute(_, _, _, _, _)
\* for (j=0; j<n; j++) x[N->pinv[j]] = b[j];
lus_permute(j, n, pinv, b, x) ==
  IF ~(j < n) THEN x
  ELSE lus_permute(j + 1, n, pinv, b, [x EXCEPT ![pinv[j]] = b[j]])

RECURSIVE lus_axpy(_, _, _, _, _, _)
\* for (p=...; p<pend; p++) x[Ai[p]] -= Ax[p]*x[j];
lus_axpy(p, pend, M, j, x, dummy) ==
  IF ~(p < pend) THEN x
  ELSE lus_axpy(p + 1, pend, M, j,
         [x EXCEPT ![M.Ai[p]] = QSub(x[M.Ai[p]], QMul(M.Ax[p], x[j]))],
         dummy)

RECURSIVE lus_lower(_, _, _, _)
\* for (j=0; j<n; j++){ x[j] /= Ax[Ap[j]]; for (p=Ap[j]+1; p<Ap[j+1]; p++)
\*   x[Ai[p]] -= Ax[p]*x[j]; }
lus_lower(j, n, L, x) ==
  IF ~(j < n) THEN x
  ELSE LET x1 == [x EXCEPT ![j] = QDiv(x[j], L.Ax[L.Ap[j]])]
       IN  lus_lower(j + 1, n, L,
             lus_axpy(L.Ap[j] + 1, L.Ap[j + 1], L, j, x1, 0))

RECURSIVE lus_upper(_, _, _)
\* for (j=n-1; j>=0; j--){ x[j] /= Ax[Ap[j+1]-1];
\*   for (p=Ap[j]; p<Ap[j+1]-1; p++) x[Ai[p]] -= Ax[p]*x[j]; }
lus_upper(j, U, x) ==
  IF ~(j >= 0) THEN x
  ELSE LET x1 == [x EXCEPT ![j] = QDiv(x[j], U.Ax[U.Ap[j + 1] - 1])]
       IN  lus_upper(j - 1, U,
             lus_axpy(U.Ap[j], U.Ap[j + 1] - 1, U, j, x1, 0))

RECURSIVE lus_unpermute(_, _, _, _, _)
\* for(j=0; j<n; j++) x[N->q[j]] = w[j];
lus_unpermute(j, n, q, w, x) ==
  IF ~(j < n) THEN x
  ELSE lus_unpermute(j + 1, n, q, w, [x EXCEPT ![q[j]] = w[j]])

\* int sp_lusolve(sp_num *N, double *b, double *x): x and the work array
\* N->w as they are left.  x0 is the caller's x before the call.
sp_lusolve(N, b, x0) ==
  LET n  == N.n
      x1 == lus_permute(0, n, N.pinv, b, x0)
      x2 == lus_lower(0, n, N.L, x1)
      x3 == lus_upper(n - 1, N.U, x2)
  IN  IF N.q # <<>>
      THEN [x |-> lus_unpermute(0, n, N.q, x3, x3), w |-> x3]
      ELSE [x |-> x3, w |-> N.w]

---------------------------------------------------------------------------
(* sp_refactor                                                             *)

RECURSIVE rf_store(_, _, _, _, _, _, _)
\* for (p=top; p<n; p++){ i = xi[k][p]; if (pinv[i]<k){Ui[unz] = pinv[i];
\* Ux[unz] = x[i]; unz++;} if (pinv[i]>k){Li[lnz] = i; Lx[lnz] =
\* x[i]/pivot; lnz++;} x[i] = 0; }
\* s has the fields Li, Lx, lnz, Ui, Ux, unz, x
rf_store(p, n, k, xik, pinv, pivot, s) ==
  IF ~(p < n) THEN s
  ELSE LET i  == xik[p]
           s1 == IF pinv[i] < k
                 THEN [s EXCEPT !.Ui[s.unz] = pinv[i], !.Ux[s.unz] = s.x[i],
                                !.unz = s.unz + 1]
                 ELSE s
           s2 == IF pinv[i] > k
                 THEN [s1 EXCEPT !.Li[s1.lnz] = i,
                                 !.Lx[s1.lnz] = QDiv(s1.x[i], pivot),
                                 !.lnz = s1.lnz + 1]
                 ELSE s1
       IN  rf_store(p + 1, n, k, xik, pinv, pivot,
             [s2 EXCEPT !.x[i] = QZero])

RECURSIVE rf_loop(_, _, _, _)

\* A variant of rf_close below that stores 1 for the pivot.
rf_close_unit(k, N, A, pivot, t) ==
  rf_loop(k + 1, N, A,
    [t EXCEPT !.Ui[t.unz] = k, !.Ux[t.unz] = QOne, !.unz = t.unz + 1])

\* The end of step k, t being the state after the loop that stores the
\* column: Ui[unz] = k; Ux[unz] = pivot; unz++;
rf_close(k, N, A, pivot, t) ==
  rf_loop(k + 1, N, A,
    [t EXCEPT !.Ui[t.unz] = k, !.Ux[t.unz] = pivot, !.unz = t.unz + 1])

\* Step k after the triangular solve has left x: ipiv = pvec[k];
\* pivot = x[ipiv]; Li[lnz] = ipiv; Lx[lnz] = 1; lnz++; and the loop that
\* stores the column.
rf_assign(k, N, A, s1) ==
  rf_close(k, N, A, s1.x[N.p[k]],
    rf_store(N.topvec[k], A.n, k, N.xi[k], N.pinv, s1.x[N.p[k]],
      [s1 EXCEPT !.Li[s1.lnz] = N.p[k], !.Lx[s1.lnz] = QOne,
                 !.lnz = s1.lnz + 1]))

\* The loop for(k=0; k<n; k++) of sp_refactor, from step k on: Lp[k] = lnz;
\* Up[k] = unz; col = q ? q[k] : k; top = N->topvec[k]; sp_splsolve(...),
\* and the rest of the step.
\* s = [Lp, Li, Lx, Up, Ui, Ux, lnz, unz, x]
rf_loop(k, N, A, s) ==
  IF ~(k < A.n) THEN s
  ELSE rf_assign(k, N, A,
         [s EXCEPT !.Lp[k] = s.lnz, !.Up[k] = s.unz,
                   !.x = sp_splsolve(A.n,
                           [Ap |-> [s.Lp EXCEPT ![k] = s.lnz],
                            Ai |-> s.Li, Ax |-> s.Lx],
                           A, ColOf(N.q, k), N.xi[k], N.topvec[k], s.x,
                           N.pinv)])

\* A variant of rf_finish below without the loop that maps Li through pinv.
rf_finish_rows(N, n, s) ==
  [N EXCEPT !.L = [Ap |-> [s.Lp EXCEPT ![n] = s.lnz],
                   Ai |-> s.Li, Ax |-> s.Lx],
            !.U = [Ap |-> [s.Up EXCEPT ![n] = s.unz],
                   Ai |-> s.Ui, Ax |-> s.Ux],
            !.w = s.x]

\* The end of sp_refactor, s being the state in which the loop was left:
\* Lp[n] = lnz; Up[n] = unz; for(p=0; p<lnz; p++) Li[p] = pinv[Li[p]];
rf_finish(N, n, s) ==
  [N EXCEPT !.L = [Ap |-> [s.Lp EXCEPT ![n] = s.lnz],
                   Ai |-> lu_remap(s.Li, s.lnz, N.pinv),
                   Ax |-> s.Lx],
            !.U = [Ap |-> [s.Up EXCEPT ![n] = s.unz],
                   Ai |-> s.Ui, Ax |-> s.Ux],
            !.w = s.x]

\* int sp_refactor(sp_num *N, sp_mat *A): the context as it is left (the
\* value returned is always _SUCCESS_).  The arrays of L and U start as the
\* last factorization left them: the triangular solve of step k reads
\* Lx[Lp[J]] for rows whose column J of L this call has not written yet.
sp_refactor(N, A) ==
  rf_finish(N, A.n,
    rf_loop(0, N, A,
      [Lp |-> [k \in 0..A.n |-> 0], Li |-> N.L.Ai, Lx |-> N.L.Ax,
       Up |-> N.U.Ap, Ui |-> N.U.Ai, Ux |-> N.U.Ax,
       lnz |-> 0, unz |-> 0, x |-> [i \in 0..(A.n - 1) |-> QZero]]))

---------------------------------------------------------------------------
(* The LU routines as a state machine: a caller allocates a context for    *)
(* dimension n (sp_num_alloc), sets or clears its column order q, and then *)
(* factorizes, refactorizes and solves.  The caller's b and x belong to    *)
(* one solve: a new factorization starts with fresh ones.                  *)

\* The dimensions of the systems factorized.
LUDims == {2}

\* The values stored in the matrices.
Vals == {QInt(v) : v \in -1..MaxVal}

\* The pivot tolerances the caller factorizes with.
PivTols == {QZero, Q(1, 2), QOne}

NoEntry == <<>>

\* The n-by-n matrix with entry e[i][j] at (i, j), NoEntry where none is
\* stored; rows increase within a column.
Matrix(n, e) ==
  LET rows(j) == SortedSeq({i \in 0..(n - 1) : e[i][j] # NoEntry})
      P == Pattern(n, [j \in 0..(n - 1) |-> rows(j)])
      colof(pos) == CHOOSE j \in 0..(n - 1) : P.Ap[j] <= pos /\ pos < P.Ap[j + 1]
  IN  [n |-> n, Ap |-> P.Ap, Ai |-> P.Ai,
       Ax |-> [pos \in DOMAIN P.Ai |-> e[P.Ai[pos]][colof(pos)]]]

\* The value of A at (i, j): zero where nothing is stored.
Entry(M, i, j) ==
  IF \E pos \in ColRange(M.Ap, j) : M.Ai[pos] = i
  THEN M.Ax[CHOOSE pos \in ColRange(M.Ap, j) : M.Ai[pos] = i]
  ELSE QZero

\* A with the entry at position pos taken out of the pattern.
DropEntry(M, pos) ==
  LET nz == M.Ap[M.n]
      sh(i) == IF i < pos THEN i ELSE i + 1
  IN  [n  |-> M.n,
       Ap |-> [j \in 0..M.n |-> IF M.Ap[j] > pos THEN M.Ap[j] - 1 ELSE M.Ap[j]],
       Ai |-> [i \in 0..(nz - 2) |-> M.Ai[sh(i)]],
       Ax |-> [i \in 0..(nz - 2) |-> M.Ax[sh(i)]]]

\* The column orders: a null q, which stands for the identity, or another
\* permutation of 0..n-1 as an array.
ColOrders(n) ==
  {<<>>} \cup {f \in [0..(n - 1) -> 0..(n - 1)] :
                 /\ \A i, j \in 0..(n - 1) : f[i] = f[j] => i = j
                 /\ \E i \in 0..(n - 1) : f[i] # i}

\* sp_num_alloc(&N, n): every array allocated and nothing written but n.
\* N->q is allocated too; the caller fills it (with sp_amd's order) or
\* frees it and sets it to NULL before factorizing.
sp_num_alloc(n, q) ==
  [n |-> n,
   L |-> [Ap |-> UnsetArr(n + 1), Ai |-> UnsetArr(MaxNz(n)),
          Ax |-> UnsetDblArr(MaxNz(n))],
   U |-> [Ap |-> UnsetArr(n + 1), Ai |-> UnsetArr(MaxNz(n)),
          Ax |-> UnsetDblArr(MaxNz(n))],
   xi |-> [k \in 0..(n - 1) |-> UnsetArr(n)],
   topvec |-> UnsetArr(n), pinv |-> UnsetArr(n), p |-> UnsetArr(n),
   q |-> q, w |-> UnsetDblArr(n)]

LUInit ==
  /\ \E n \in LUDims : \E q \in ColOrders(n) :
       /\ num = sp_num_alloc(n, q)
       /\ mat = Matrix(n, [i \in 0..(n - 1) |-> [j \in 0..(n - 1) |-> NoEntry]])
       /\ rhs = UnsetDblArr(n)
       /\ sol = UnsetDblArr(n)
  /\ tol \in PivTols
  /\ fact = [ret |-> "none", k |-> 0]
  /\ lop = "sp_num_alloc"
  /\ hadfact = FALSE

\* num holds a successful factorization of a matrix with the pattern of mat.
Valid == fact.ret = SUCCESS

\* The matrices handed to a call that follows an earlier one: mat with one
\* stored value moved to the next value (or none); every matrix of the
\* pattern is reached by a sequence of such calls.  The value that follows
\* v among the values stored is v + 1, and -1 after the last.
Revalued(M) ==
  {M} \cup {[M EXCEPT !.Ax[pos] = IF @[1] >= MaxVal THEN QInt(-1)
                                  ELSE QInt(@[1] + 1)] : pos \in DOMAIN M.Ai}

\* The first factorization with a fresh context: any matrix.
Ludcmp ==
  /\ lop = "sp_num_alloc"
  /\ \E M \in {Matrix(num.n, e) :
              e \in [0..(num.n - 1) -> [0..(num.n - 1) -> Vals \cup {NoEntry}]]} :
       LET r == sp_ludcmp(num, M, tol)
       IN  /\ mat' = M
           /\ num' = r.N
           /\ fact' = [ret |-> r.ret, k |-> r.k]
  /\ lop' = "sp_ludcmp"
  /\ hadfact' = FALSE
  /\ rhs' = UnsetDblArr(num.n)
  /\ sol' = UnsetDblArr(num.n)
  /\ UNCHANGED <<tol, gvars, pvars, avars, rvars>>

\* A later factorization with the same context: the matrix with a value
\* rewritten or an entry taken out.
LudcmpAgain ==
  /\ lop # "sp_num_alloc"
  /\ \E M \in Revalued(mat) \cup {DropEntry(mat, pos) : pos \in DOMAIN mat.Ai} :
       LET r == sp_ludcmp(num, M, tol)
       IN  /\ mat' = M
           /\ num' = r.N
           /\ fact' = [ret |-> r.ret, k |-> r.k]
           /\ hadfact' = (Valid /\ r.ret = FAILURE)
  /\ lop' = "sp_ludcmp"
  /\ rhs' = UnsetDblArr(num.n)
  /\ sol' = UnsetDblArr(num.n)
  /\ UNCHANGED <<tol, gvars, pvars, avars, rvars>>

\* sp_refactor after the caller has rewritten a value of the matrix last
\* factorized (same pattern, different values).  The caller refactorizes
\* only a context that holds a successful factorization.
Refactor ==
  /\ Valid
  /\ \E M \in Revalued(mat) \ {mat} :
       /\ mat' = M
       /\ num' = sp_refactor(num, M)
  /\ lop' = "sp_refactor"
  /\ rhs' = UnsetDblArr(num.n)
  /\ sol' = UnsetDblArr(num.n)
  /\ UNCHANGED <<tol, fact, hadfact, gvars, pvars, avars, rvars>>

\* sp_lusolve with the factors held by the context.
Lusolve ==
  /\ Valid
  /\ \E bb \in [0..(num.n - 1) -> {QInt(v) : v \in 0..MaxRhs}] :
       LET r == sp_lusolve(num, bb, sol)
       IN  /\ rhs' = bb
           /\ sol' = r.x
           /\ num' = [num EXCEPT !.w = r.w]
  /\ lop' = "sp_lusolve"
  /\ UNCHANGED <<mat, tol, fact, hadfact, gvars, pvars, avars, rvars>>

LUNext == Ludcmp \/ LudcmpAgain \/ Refactor \/ Lusolve

LUIdle ==
  /\ mat = Pattern(0, <<>>)
  /\ num = <<>>
  /\ tol = QZero
  /\ fact = [ret |-> "none", k |-> 0]
  /\ lop = "idle"
  /\ hadfact = FALSE
  /\ rhs = <<>>
  /\ sol = <<>>

---------------------------------------------------------------------------
(* sp_amd, sp_wclear, sp_tdfs                                              *)
(*                                                                         *)
(* The state s of a running sp_amd is a record of its arrays -- Cp, Ci,    *)
(* the eight work arrays len, nv, next, head, elen, degree, w, hhead of    *)
(* n+1 elements each, and last, which is the output array P -- and of the  *)
(* locals that live across the parts of the main loop: n, nzmax, dense,    *)
(* lemax, mindeg, mark, nel, cnz, k, elenk, nvk, dk, pk1, pk2.             *)

\* The element of a set of one element.  An argument a C function is
\* called with is evaluated once, when it is called: the operators below
\* take the state as s0 (a result as r0) and work on its value s (r).
The(S) == CHOOSE v \in S : TRUE

Min(a, c) == IF a < c THEN a ELSE c
Max(a, c) == IF a > c THEN a ELSE c

RECURSIVE ISqrtFrom(_, _)
\* The largest r' >= r with r' * r' <= m: the integer part of sqrt(m).
ISqrtFrom(r, m) == IF (r + 1) * (r + 1) > m THEN r ELSE ISqrtFrom(r + 1, m)

\* int sp_wclear(int mark, int lemax, int *w, int n): the value returned
\* and w as it is left.
sp_wclear(mark, lemax, w, n) ==
  IF mark < 2 \/ mark + lemax < 0
  THEN [mark |-> 2,
        w |-> [k \in DOMAIN w |-> IF k < n /\ w[k] # 0 THEN 1 ELSE w[k]]]
  ELSE [mark |-> mark, w |-> w]

\* mark = sp_wclear(mark0, lemax, w, n);
amd_wclear(s0, mark0) ==
  The({
    [s EXCEPT !.mark = sp_wclear(mark0, s.lemax, s.w, s.n).mark,
              !.w = sp_wclear(mark0, s.lemax, s.w, s.n).w]
    : s \in {s0}})

\* The start of sp_amd up to the degree lists:
\* dense = max(16,10*sqrt((double) n)); dense = min(n-2,dense);
\* cnz = Cp[n], the quotient
\* graph initialised, mark = sp_wclear(0, 0, w, n), elen[n] = -2,
\* Cp[n] = -1, w[n] = 0.
amd_alloc(Cp, Ci, n, nzmax) ==
  [amd_wclear(
     [n |-> n, nzmax |-> nzmax,
      dense |-> Min(n - 2, Max(16, ISqrtFrom(0, 100 * n))),
      Cp |-> Cp, Ci |-> Ci,
      len    |-> [k \in 0..n |-> IF k < n THEN Cp[k + 1] - Cp[k] ELSE 0],
      head   |-> [i \in 0..n |-> -1],
      last   |-> [i \in 0..n |-> -1],
      next   |-> [i \in 0..n |-> -1],
      hhead  |-> [i \in 0..n |-> -1],
      nv     |-> [i \in 0..n |-> 1],
      w      |-> [i \in 0..n |-> 1],
      elen   |-> [i \in 0..n |-> 0],
      degree |-> [k \in 0..n |-> IF k < n THEN Cp[k + 1] - Cp[k] ELSE 0],
      lemax |-> 0, mindeg |-> 0, mark |-> 0, nel |-> 0, cnz |-> Cp[n],
      k |-> -1, elenk |-> 0, nvk |-> 0, dk |-> 0, pk1 |-> 0, pk2 |-> 0],
     0)
   EXCEPT !.elen[n] = -2, !.Cp[n] = -1, !.w[n] = 0]

RECURSIVE amd_lists(_, _)
\* Initialize degree lists: for(i=0; i<n; i++){ d = degree[i];
\* if(d==0){ elen[i] = -2; nel++; Cp[i] = -1; w[i] = 0; }
\* else if(d>dense){ nv[i] = 0; elen[i] = -1; nel++; Cp[i] = SPFLIP(n);
\* nv[n]++; }
\* else{ if(head[d]!=-1) last[head[d]] = i; next[i] = head[d];
\* head[d] = i; } }
amd_lists(i, s0) ==
  The({
    IF ~(i < s.n) THEN s
    ELSE amd_lists(i + 1,
      IF s.degree[i] = 0
      THEN [s EXCEPT !.elen[i] = -2, !.nel = @ + 1, !.Cp[i] = -1, !.w[i] = 0]
      ELSE IF s.degree[i] > s.dense
      THEN [s EXCEPT !.nv[i] = 0, !.elen[i] = -1, !.nel = @ + 1,
                     !.Cp[i] = SPFLIP(s.n), !.nv[s.n] = @ + 1]
      ELSE [s EXCEPT !.last = IF s.head[s.degree[i]] # -1
                              THEN [@ EXCEPT ![s.head[s.degree[i]]] = i]
                              ELSE @,
                     !.next[i] = s.head[s.degree[i]],
                     !.head[s.degree[i]] = i])
    : s \in {s0}})

RECURSIVE amd_select(_)
\* for(k=-1; (mindeg<n)&&((k=head[mindeg])==-1); mindeg++);
amd_select(s0) ==
  The({
    IF s.mindeg < s.n /\ s.head[s.mindeg] = -1
    THEN amd_select([s EXCEPT !.mindeg = @ + 1])
    ELSE [s EXCEPT !.k = IF s.mindeg < s.n THEN s.head[s.mindeg] ELSE -1]
    : s \in {s0}})

\* if(next[k]!=-1) last[next[k]]=-1; head[mindeg] = next[k];
\* elenk = elen[k]; nvk = nv[k]; nel += nvk;
amd_take(s0) ==
  The({
    [s EXCEPT !.last = IF s.next[s.k] # -1
                       THEN [@ EXCEPT ![s.next[s.k]] = -1] ELSE @,
              !.head[s.mindeg] = s.next[s.k],
              !.elenk = s.elen[s.k], !.nvk = s.nv[s.k],
              !.nel = @ + s.nv[s.k]]
    : s \in {s0}})

RECURSIVE amd_gc_flip(_, _)
\* for(j=0; j<n; j++) if((p=Cp[j])>=0){ Cp[j] = Ci[p]; Ci[p] = SPFLIP(j); }
amd_gc_flip(j, s0) ==
  The({
    IF ~(j < s.n) THEN s
    ELSE amd_gc_flip(j + 1,
           IF s.Cp[j] >= 0
           THEN [s EXCEPT !.Cp[j] = s.Ci[s.Cp[j]], !.Ci[s.Cp[j]] = SPFLIP(j)]
           ELSE s)
    : s \in {s0}})

RECURSIVE amd_gc_pack(_, _, _)
RECURSIVE amd_gc_row(_, _, _, _, _)
\* for(k3=0; k3<len[j]-1; k3++) Ci[q++] = Ci[p++];  then on with the scan
amd_gc_row(j, k3, q, p, s0) ==
  The({
    IF k3 < s.len[j] - 1
    THEN amd_gc_row(j, k3 + 1, q + 1, p + 1, [s EXCEPT !.Ci[q] = s.Ci[p]])
    ELSE amd_gc_pack(q, p, s)
    : s \in {s0}})

\* for(q=0,p=0; p<cnz; ){ if((j=SPFLIP(Ci[p++]))>=0){ Ci[q] = Cp[j];
\* Cp[j] = q++; ... } }  cnz = q;
amd_gc_pack(q, p, s0) ==
  The({
    IF ~(p < s.cnz) THEN [s EXCEPT !.cnz = q]
    ELSE IF SPFLIP(s.Ci[p]) >= 0
    THEN amd_gc_row(SPFLIP(s.Ci[p]), 0, q + 1, p + 1,
           [s EXCEPT !.Ci[q] = s.Cp[SPFLIP(s.Ci[p])],
                     !.Cp[SPFLIP(s.Ci[p])] = q])
    ELSE amd_gc_pack(q, p + 1, s)
    : s \in {s0}})

\* Garbage collection: if((elenk>0)&&(cnz+mindeg >=nzmax)){ ... }
amd_gc(s0) ==
  The({
    IF s.elenk > 0 /\ s.cnz + s.mindeg >= s.nzmax
    THEN amd_gc_pack(0, 0, amd_gc_flip(0, s))
    ELSE s
    : s \in {s0}})

\* The body of the loop over k2 for i = Ci[pj++]:
\* if((nvi=nv[i])<=0) continue; dk += nvi; nv[i] = -nvi; Ci[pk2++] = i;
\* if (next[i]!=-1) last[next[i]] =last[i];
\* if (last[i]!=-1){ next[last[i]] = next[i]; }
\* else{ head[degree[i]] = next[i]; }
amd_elem_node(i, s0) ==
  The({
    IF s.nv[i] <= 0 THEN s
    ELSE [s EXCEPT !.dk = @ + s.nv[i], !.nv[i] = -s.nv[i],
                   !.Ci[s.pk2] = i, !.pk2 = @ + 1,
                   !.last = IF s.next[i] # -1
                            THEN [@ EXCEPT ![s.next[i]] = s.last[i]] ELSE @,
                   !.next = IF s.last[i] # -1
                            THEN [@ EXCEPT ![s.last[i]] = s.next[i]] ELSE @,
                   !.head = IF s.last[i] # -1 THEN @
                            ELSE [@ EXCEPT ![s.degree[i]] = s.next[i]]]
    : s \in {s0}})

RECURSIVE amd_elem_scan(_, _, _, _, _)
\* for(k2=1; k2<=ln; k2++){ i=Ci[pj++]; ... }
\* if(e!=k){ Cp[e] = SPFLIP(k); w[e] = 0; }
amd_elem_scan(k2, ln, pj, e, s0) ==
  The({
    IF k2 <= ln
    THEN amd_elem_scan(k2 + 1, ln, pj + 1, e, amd_elem_node(s.Ci[pj], s))
    ELSE IF e # s.k THEN [s EXCEPT !.Cp[e] = SPFLIP(s.k), !.w[e] = 0]
    ELSE s
    : s \in {s0}})

RECURSIVE amd_elem_loop(_, _, _)
\* for(k1=1; k1<=elenk + 1; k1++){ if (k1>elenk){ e=k; pj = p;
\* ln = len[k] - elenk; } else{ e = Ci[p++]; pj = Cp[e]; ln = len[e]; } ... }
\* if (elenk!=0) cnz = pk2; degree[k] = dk; Cp[k] = pk1;
\* len[k] = pk2 - pk1; elen[k] = -2;
amd_elem_loop(k1, p, s0) ==
  The({
    IF ~(k1 <= s.elenk + 1)
    THEN [s EXCEPT !.cnz = IF s.elenk # 0 THEN s.pk2 ELSE @,
                   !.degree[s.k] = s.dk, !.Cp[s.k] = s.pk1,
                   !.len[s.k] = s.pk2 - s.pk1, !.elen[s.k] = -2]
    ELSE IF k1 > s.elenk
    THEN amd_elem_loop(k1 + 1, p,
           amd_elem_scan(1, s.len[s.k] - s.elenk, p, s.k, s))
    ELSE amd_elem_loop(k1 + 1, p + 1,
           amd_elem_scan(1, s.len[s.Ci[p]], s.Cp[s.Ci[p]], s.Ci[p], s))
    : s \in {s0}})

\* Construct new element: dk = 0; nv[k] = -nvk; p = Cp[k];
\* pk1 = (elenk==0) ? p : cnz; pk2 = pk1; the loop over k1, and the end.
amd_element(s0) ==
  The({
    amd_elem_loop(1, s.Cp[s.k],
      [s EXCEPT !.dk = 0, !.nv[s.k] = -s.nvk,
                !.pk1 = IF s.elenk = 0 THEN s.Cp[s.k] ELSE s.cnz,
                !.pk2 = IF s.elenk = 0 THEN s.Cp[s.k] ELSE s.cnz])
    : s \in {s0}})

RECURSIVE amd_diff_elems(_, _, _, _)
\* for(p=Cp[i]; p<=Cp[i] + eln -1; p++){ e = Ci[p]; if(w[e] >=mark)
\* w[e] -= nvi; else if(w[e]!=0) w[e] = degree[e] + wnvi; }
amd_diff_elems(p, pend, nvi, s0) ==
  The({
    IF ~(p <= pend) THEN s
    ELSE amd_diff_elems(p + 1, pend, nvi,
           IF s.w[s.Ci[p]] >= s.mark
           THEN [s EXCEPT !.w[s.Ci[p]] = @ - nvi]
           ELSE IF s.w[s.Ci[p]] # 0
           THEN [s EXCEPT !.w[s.Ci[p]] = s.degree[s.Ci[p]] + (s.mark - nvi)]
           ELSE s)
    : s \in {s0}})

RECURSIVE amd_diff(_, _)
\* for(pk=pk1; pk<pk2; pk++){ i = Ci[pk]; if((eln = elen[i]) <=0) continue;
\* nvi = -nv[i]; wnvi = mark - nvi; ... }
amd_diff(pk, s0) ==
  The({
    IF ~(pk < s.pk2) THEN s
    ELSE amd_diff(pk + 1,
           IF s.elen[s.Ci[pk]] <= 0 THEN s
           ELSE amd_diff_elems(s.Cp[s.Ci[pk]],
                  s.Cp[s.Ci[pk]] + s.elen[s.Ci[pk]] - 1, -s.nv[s.Ci[pk]], s))
    : s \in {s0}})

RECURSIVE amd_deg_elems(_, _, _, _, _, _)
\* for(h=0, d=0, p=p1; p<=p2; p++){ e = Ci[p]; if(w[e]!=0){
\* dext = w[e] - mark; if (dext>0){ d+=dext; Ci[pn++] = e; h +=e; }
\* else{ Cp[e] = SPFLIP(k); w[e] = 0; } } }      the result is [s, pn, d, h]
amd_deg_elems(p, p2, pn, d, h, s0) ==
  The({
    IF ~(p <= p2) THEN [s |-> s, pn |-> pn, d |-> d, h |-> h]
    ELSE IF s.w[s.Ci[p]] = 0 THEN amd_deg_elems(p + 1, p2, pn, d, h, s)
    ELSE IF s.w[s.Ci[p]] - s.mark > 0
    THEN amd_deg_elems(p + 1, p2, pn + 1, d + (s.w[s.Ci[p]] - s.mark),
           h + s.Ci[p], [s EXCEPT !.Ci[pn] = s.Ci[p]])
    ELSE amd_deg_elems(p + 1, p2, pn, d, h,
           [s EXCEPT !.Cp[s.Ci[p]] = SPFLIP(s.k), !.w[s.Ci[p]] = 0])
    : s \in {s0}})

RECURSIVE amd_deg_vars(_, _, _, _, _, _)
\* for(p=p2+1; p<p4; p++){ j=Ci[p]; if((nvj = nv[j]) <= 0) continue;
\* d += nvj; Ci[pn++] = j; h += j; }             the result is [s, pn, d, h]
amd_deg_vars(p, p4, pn, d, h, s0) ==
  The({
    IF ~(p < p4) THEN [s |-> s, pn |-> pn, d |-> d, h |-> h]
    ELSE IF s.nv[s.Ci[p]] <= 0 THEN amd_deg_vars(p + 1, p4, pn, d, h, s)
    ELSE amd_deg_vars(p + 1, p4, pn + 1, d + s.nv[s.Ci[p]], h + s.Ci[p],
           [s EXCEPT !.Ci[pn] = s.Ci[p]])
    : s \in {s0}})

\* The end of the degree update of node i, r = [s, pn, d, h] being what the
\* two loops have left: if (d==0){ Cp[i] = SPFLIP(k); nvi = -nv[i];
\* dk -= nvi; nvk += nvi; nel +=nvi; nv[i] = 0; elen[i] = -1; }
\* else{ degree[i] = min(degree[i],d); Ci[pn] = Ci[p3]; Ci[p3] = Ci[p1];
\* Ci[p1] = k; len[i] = pn -p1 +1; h %= n; next[i] = hhead[h];
\* hhead[h] = i; last[i] = h; }
amd_deg_close(i, p1, p3, r0) ==
  The({
    IF r.d = 0
    THEN [r.s EXCEPT !.Cp[i] = SPFLIP(r.s.k),
                     !.dk = @ + r.s.nv[i], !.nvk = @ - r.s.nv[i],
                     !.nel = @ - r.s.nv[i],
                     !.nv[i] = 0, !.elen[i] = -1]
    ELSE [r.s EXCEPT !.degree[i] = Min(@, r.d),
                     !.Ci[r.pn] = r.s.Ci[p3], !.Ci[p3] = r.s.Ci[p1],
                     !.Ci[p1] = r.s.k,
                     !.len[i] = r.pn - p1 + 1,
                     !.next[i] = r.s.hhead[r.h % r.s.n],
                     !.hhead[r.h % r.s.n] = i,
                     !.last[i] = r.h % r.s.n]
    : r \in {r0}})

\* The degree update of node i: p1 = Cp[i]; p2 = p1 + elen[i] - 1; pn = p1;
\* the first loop, r = [s, pn, d, h] being what it has left;
\* elen[i] = pn-p1+1; p3 = pn; p4 = p1 + len[i]; the second loop, the end.
amd_deg_node(i, s0) ==
  The({
    The({
      amd_deg_close(i, s.Cp[i], r.pn,
        amd_deg_vars(s.Cp[i] + s.elen[i], s.Cp[i] + r.s.len[i],
          r.pn, r.d, r.h, [r.s EXCEPT !.elen[i] = r.pn - s.Cp[i] + 1]))
      : r \in {amd_deg_elems(s.Cp[i], s.Cp[i] + s.elen[i] - 1, s.Cp[i],
                             0, 0, s)}})
    : s \in {s0}})

RECURSIVE amd_deg(_, _)
\* Degree update: for(pk=pk1; pk<pk2; pk++){ i=Ci[pk]; ... }
\* degree[k] = dk; lemax = max(lemax,dk);
\* mark = sp_wclear(mark+lemax, lemax, w, n);
amd_deg(pk, s0) ==
  The({
    IF pk < s.pk2 THEN amd_deg(pk + 1, amd_deg_node(s.Ci[pk], s))
    ELSE amd_wclear([s EXCEPT !.degree[s.k] = s.dk, !.lemax = Max(@, s.dk)],
                    s.mark + Max(s.lemax, s.dk))
    : s \in {s0}})

RECURSIVE amd_super_scatter(_, _, _)
\* for(p=Cp[i] + 1; p<=Cp[i]+ln-1; p++) w[Ci[p]] = mark;
amd_super_scatter(p, pend, s0) ==
  The({
    IF ~(p <= pend) THEN s
    ELSE amd_super_scatter(p + 1, pend, [s EXCEPT !.w[s.Ci[p]] = s.mark])
    : s \in {s0}})

\* ok = (len[j]==ln)&&(elen[j] == eln);
\* for(p=Cp[j] +1;ok&&p<=Cp[j]+ln-1; p++) if(w[Ci[p]]!=mark) ok=0;
amd_super_ok(j, ln, eln, s) ==
  /\ s.len[j] = ln
  /\ s.elen[j] = eln
  /\ \A p \in (s.Cp[j] + 1)..(s.Cp[j] + ln - 1) : s.w[s.Ci[p]] = s.mark

RECURSIVE amd_super_cmp(_, _, _, _, _, _)
\* for(j=next[i]; j!=-1; ){ ok = ...; if (ok){ Cp[j] = SPFLIP(i);
\* nv[i] +=nv[j]; nv[j] = 0; elen[j] = -1; j = next[j]; next[jlast] = j; }
\* else{ jlast =j; j = next[j]; } }
amd_super_cmp(i, jlast, j, ln, eln, s0) ==
  The({
    IF j = -1 THEN s
    ELSE IF amd_super_ok(j, ln, eln, s)
    THEN amd_super_cmp(i, jlast, s.next[j], ln, eln,
           [s EXCEPT !.Cp[j] = SPFLIP(i), !.nv[i] = @ + s.nv[j], !.nv[j] = 0,
                     !.elen[j] = -1, !.next[jlast] = s.next[j]])
    ELSE amd_super_cmp(i, j, s.next[j], ln, eln, s)
    : s \in {s0}})

RECURSIVE amd_super_bucket(_, _)
\* for( ;(i!=-1)&&(next[i]!=-1);i = next[i],mark++){ ln = len[i];
\* eln = elen[i]; the scatter; jlast = i; the loop over j }
amd_super_bucket(i, s0) ==
  The({
    IF ~(i # -1 /\ s.next[i] # -1) THEN s
    ELSE The({
           amd_super_bucket(s1.next[i], [s1 EXCEPT !.mark = @ + 1])
           : s1 \in {amd_super_cmp(i, i, s.next[i], s.len[i], s.elen[i],
                       amd_super_scatter(s.Cp[i] + 1, s.Cp[i] + s.len[i] - 1,
                                         s))}})
    : s \in {s0}})

RECURSIVE amd_super(_, _)
\* Supernode detection: for(pk=pk1; pk <pk2; pk++){ i = Ci[pk];
\* if(nv[i]>=0) continue; h = last[i]; i = hhead[h]; hhead[h] = -1; ... }
amd_super(pk, s0) ==
  The({
    IF ~(pk < s.pk2) THEN s
    ELSE IF s.nv[s.Ci[pk]] >= 0 THEN amd_super(pk + 1, s)
    ELSE amd_super(pk + 1,
           amd_super_bucket(s.hhead[s.last[s.Ci[pk]]],
             [s EXCEPT !.hhead[s.last[s.Ci[pk]]] = -1]))
    : s \in {s0}})

\* Node i of the new element goes back to the degree lists, d being
\* min(degree[i] + dk - nvi, n - nel - nvi) and nvi being -nv[i]:
\* nv[i] = nvi; if(head[d]!=-1) last[head[d]] = i; next[i] = head[d];
\* last[i] = -1; head[d] = i; mindeg = min(mindeg,d); degree[i] = d;
\* Ci[p++] = i;
amd_final_node(i, d, p, s0) ==
  The({
    [s EXCEPT !.nv[i] = -s.nv[i],
              !.last = [(IF s.head[d] # -1
                         THEN [@ EXCEPT ![s.head[d]] = i] ELSE @)
                        EXCEPT ![i] = -1],
              !.next[i] = s.head[d],
              !.head[d] = i,
              !.mindeg = Min(@, d),
              !.degree[i] = d,
              !.Ci[p] = i]
    : s \in {s0}})

RECURSIVE amd_final(_, _, _)
\* Finalize new element: for(p=pk1, pk=pk1; pk<pk2; pk++){ i = Ci[pk];
\* if ((nvi = -nv[i]) <=0) continue; ... }
\* nv[k] = nvk; if((len[k] = p-pk1)==0){ Cp[k] = -1; w[k] = 0; }
\* if(elenk!=0) cnz = p;
amd_final(pk, p, s0) ==
  The({
    IF ~(pk < s.pk2)
    THEN [s EXCEPT !.nv[s.k] = s.nvk,
                   !.len[s.k] = p - s.pk1,
                   !.Cp[s.k] = IF p - s.pk1 = 0 THEN -1 ELSE @,
                   !.w[s.k] = IF p - s.pk1 = 0 THEN 0 ELSE @,
                   !.cnz = IF s.elenk # 0 THEN p ELSE @]
    ELSE IF -s.nv[s.Ci[pk]] <= 0 THEN amd_final(pk + 1, p, s)
    ELSE amd_final(pk + 1, p + 1,
           amd_final_node(s.Ci[pk],
             Min(s.degree[s.Ci[pk]] + s.dk + s.nv[s.Ci[pk]],
                 s.n - s.nel + s.nv[s.Ci[pk]]),
             p, s))
    : s \in {s0}})

\* One turn of while(nel<n): select the node of minimum degree, collect
\* garbage, construct the new element (s1), find the set differences (s2),
\* update the degrees (s3), detect supernodes (s4), finalize the new
\* element.
amd_eliminate(s) ==
  The({amd_final(s4.pk1, s4.pk1, s4) :
    s4 \in {amd_super(s3.pk1, s3) :
    s3 \in {amd_deg(s2.pk1, s2) :
    s2 \in {amd_diff(s1.pk1, amd_wclear(s1, s1.mark)) :
    s1 \in {amd_element(amd_gc(amd_take(amd_select(s))))}}}}})

\* Node j is not placed among the children of its parent (for comparison).
amd_post_child_skip(j, s) == s

\* next[j] = head[Cp[j]]; head[Cp[j]] = j;
amd_post_child(j, s0) ==
  The({
    [s EXCEPT !.next[j] = s.head[s.Cp[j]], !.head[s.Cp[j]] = j]
    : s \in {s0}})

RECURSIVE amd_post_vars(_, _)
\* for(j=n; j>=0; j--){ if(nv[j] > 0) continue; ... }
amd_post_vars(j, s0) ==
  The({
    IF ~(j >= 0) THEN s
    ELSE amd_post_vars(j - 1,
           IF s.nv[j] > 0 THEN s ELSE amd_post_child(j, s))
    : s \in {s0}})

RECURSIVE amd_post_elems(_, _)
\* for(e=n; e>=0; e--){ if(nv[e]<=0) continue; if(Cp[e] !=-1){ ... } }
amd_post_elems(e, s0) ==
  The({
    IF ~(e >= 0) THEN s
    ELSE amd_post_elems(e - 1,
           IF s.nv[e] <= 0 \/ s.Cp[e] = -1 THEN s
           ELSE [s EXCEPT !.next[e] = s.head[s.Cp[e]], !.head[s.Cp[e]] = e])
    : s \in {s0}})

RECURSIVE tdfs_loop(_, _, _, _, _, _)
\* while(top>=0){ p = stack[top]; i = head[p]; if (i==-1){ top--;
\* post[k++] = p; } else{ head[p] = next[i]; stack[++top] = i; } }
\* return (k);           the result is k and the arrays as they are left
tdfs_loop(top, k, head0, next, post0, stack0) ==
  The({
    IF ~(top >= 0)
    THEN [k |-> k, head |-> head, post |-> post, stack |-> stack]
    ELSE IF head[stack[top]] = -1
    THEN tdfs_loop(top - 1, k + 1, head, next,
                   [post EXCEPT ![k] = stack[top]], stack)
    ELSE tdfs_loop(top + 1, k,
                   [head EXCEPT ![stack[top]] = next[head[stack[top]]]], next,
                   post, [stack EXCEPT ![top + 1] = head[stack[top]]])
    : <<head, post, stack>> \in {<<head0, post0, stack0>>}})

\* int sp_tdfs(int j, int k, int *head, const int *next, int *post,
\* int *stack): top = 0; stack[0] = j; and the loop.
sp_tdfs(j, k, head, next, post, stack) ==
  tdfs_loop(0, k, head, next, post, [stack EXCEPT ![0] = j])

RECURSIVE amd_post_roots(_, _, _)
\* for(k=0,i=0; i<=n; i++){ if (Cp[i] == -1) k = sp_tdfs(i, k, head, next,
\* P, w); }              r is k and the arrays as sp_tdfs leaves them
amd_post_roots(i, k, s0) ==
  The({
    IF ~(i <= s.n) THEN s
    ELSE IF s.Cp[i] = -1
    THEN The({
           amd_post_roots(i + 1, r.k,
             [s EXCEPT !.head = r.head, !.last = r.post, !.w = r.stack])
           : r \in {sp_tdfs(i, k, s.head, s.next, s.last, s.w)}})
    ELSE amd_post_roots(i + 1, k, s)
    : s \in {s0}})

\* Postordering: for(i=0; i<n; i++) Cp[i] = SPFLIP(Cp[i]);
\* for(j=0; j<=n; j++) head[j] = -1; then the assembly tree is built from
\* Cp and traversed from every root.
amd_postorder(s) ==
  amd_post_roots(0, 0,
    amd_post_elems(s.n,
      amd_post_vars(s.n,
        [s EXCEPT !.Cp = [i \in DOMAIN @ |->
                            IF i < s.n THEN SPFLIP(@[i]) ELSE @[i]],
                  !.head = [j \in DOMAIN @ |->
                            IF j <= s.n THEN -1 ELSE @[j]]])))

---------------------------------------------------------------------------
(* sp_amd as a process: the call, one step per turn of while(nel<n), the   *)
(* postordering and return.                                                *)

\* Largest number of nodes of a pattern handed to sp_amd.
MaxNodes == 5

\* The unordered pairs of distinct nodes: the possible edges.
Pairs(n) == {e \in (0..(n - 1)) \X (0..(n - 1)) : e[1] < e[2]}

\* The symmetric pattern without diagonal whose edges are E, its columns
\* sorted as get_pattern_A_plus_AT leaves them.
Symmetric(n, E) ==
  Pattern(n, [j \in 0..(n - 1) |->
    SortedSeq({i \in 0..(n - 1) : <<i, j>> \in E \/ <<j, i>> \in E})])

\* What the caller hands to sp_amd: the pattern in an array Ci of nzmax
\* entries, nzmax being the size get_pattern_A_plus_AT trims it to.
AmdInput(P) ==
  [n |-> P.n, Cp |-> P.Ap,
   nzmax |-> P.Ap[P.n] + (P.Ap[P.n] \div 5) + 2 * P.n,
   Ci |-> [i \in 0..(P.Ap[P.n] + (P.Ap[P.n] \div 5) + 2 * P.n - 1) |->
             IF i < P.Ap[P.n] THEN P.Ai[i] ELSE Unset]]

AmdIdle == Cin = [n |-> 0] /\ amd = [n |-> 0] /\ apc = "idle"

AmdInit ==
  /\ \E n \in 1..MaxNodes : \E E \in SUBSET Pairs(n) :
       Cin = AmdInput(Symmetric(n, E))
  /\ amd = [n |-> 0]
  /\ apc = "call"

\* sp_amd is entered: lines 431-482.
AmdStart ==
  /\ apc = "call"
  /\ amd' = amd_lists(0, amd_alloc(Cin.Cp, Cin.Ci, Cin.n, Cin.nzmax))
  /\ apc' = "while"
  /\ UNCHANGED <<Cin, gvars, pvars, luvars, rvars>>

\* One turn of while(nel<n).
AmdEliminate ==
  /\ apc = "while"
  /\ amd.nel < amd.n
  /\ amd' = amd_eliminate(amd)
  /\ UNCHANGED <<Cin, apc, gvars, pvars, luvars, rvars>>

\* The loop is left: postordering, return _SUCCESS_.
AmdPostorder ==
  /\ apc = "while"
  /\ ~(amd.nel < amd.n)
  /\ amd' = amd_postorder(amd)
  /\ apc' = "return"
  /\ UNCHANGED <<Cin, gvars, pvars, luvars, rvars>>

AmdNext == AmdStart \/ AmdEliminate \/ AmdPostorder

---------------------------------------------------------------------------
(* The reach of a column: reachr called on the graph of L.                 *)

\* The graph reachr is handed by sp_ludcmp at the head of step k (lines
\* 145-149): G = L with k columns stored.  Column J of L begins with its
\* pivot row p[J] (line 178) and goes on with rows that were given no
\* pivot step by then (line 183), rest[J]; pinv[p[J]] = J (line 176) and
\* pinv is -1 elsewhere (line 140); Lp[k] = lnz (line 145) and Lp is 0
\* beyond k (line 141).
ReachGraph(n, k, p, rest) ==
  LET L == Pattern(n, [J \in 0..(n - 1) |->
                         IF J < k THEN <<p[J]>> \o rest[J] ELSE <<>>])
  IN  [n    |-> n,
       Gp   |-> [j \in 0..n |-> IF j > k THEN 0 ELSE L.Ap[j]],
       Gi   |-> L.Ai,
       pinv |-> [i \in 0..(n - 1) |->
                   IF \E J \in 0..(k - 1) : p[J] = i
                   THEN CHOOSE J \in 0..(k - 1) : p[J] = i ELSE -1]]

ReachIdle == Rg = [n |-> 0] /\ Rb = Pattern(0, <<>>) /\ Rout = [k |-> -1]

\* Any such graph of at most MaxReach nodes, with any matrix B of sorted
\* columns; no reachr has run.
ReachInit ==
  /\ \E n \in 1..MaxReach : \E k \in 0..(n - 1) :
       \E p \in [0..(k - 1) -> 0..(n - 1)] :
         \E rest \in [0..(k - 1) ->
                        UNION {[1..m -> 0..(n - 1)] : m \in 0..(n - 1)}] :
           /\ \A I, J \in 0..(k - 1) : p[I] = p[J] => I = J
           /\ \A J \in 0..(k - 1) : \A a, b \in DOMAIN rest[J] :
                /\ rest[J][a] = rest[J][b] => a = b
                /\ \A I \in 0..J : p[I] # rest[J][a]
           /\ Rg = ReachGraph(n, k, p, rest)
           /\ Rb \in SortedPatterns(n)
  /\ Rout = [k |-> -1]

\* top = reachr(G, B, k, xik, pinv) for a column k of B and an array xik
\* of n elements nothing was written to; Gp is the array reachr worked on.
Reachr ==
  /\ Rg.n > 0
  /\ \E k \in 0..(Rg.n - 1) :
       LET r == reachr(Rg.n, Rb.Ap, Rb.Ai, Rg.Gp, Rg.Gi, k,
                       UnsetArr(Rg.n), Rg.pinv)
       IN  /\ Rg' = [Rg EXCEPT !.Gp = r.Gp]
           /\ Rout' = [k |-> k, top |-> r.top, xik |-> r.xik]
  /\ UNCHANGED <<Rb, gvars, pvars, luvars, avars>>

---------------------------------------------------------------------------
(* Specifications: one per component, the other components idle.           *)

GroupIdle ==
  /\ G = Pattern(0, <<>>)
  /\ col_g = <<>>
  /\ filled = <<>>
  /\ gret = 0
  /\ gop = "idle"

PatIdle ==
  /\ Apat = Pattern(0, <<>>)
  /\ C = [Cp |-> <<>>, Ci |-> <<>>, nzmax |-> 0]
  /\ pop = "idle"

InitGroup == GroupInit /\ PatIdle /\ LUIdle /\ AmdIdle /\ ReachIdle

SpecGroup == InitGroup /\ [][GroupNext]_vars

InitPattern == PatInit /\ GroupIdle /\ LUIdle /\ AmdIdle /\ ReachIdle

PatNext == GetPatternAplusAT

SpecPattern == InitPattern /\ [][PatNext]_vars

InitLU == LUInit /\ GroupIdle /\ PatIdle /\ AmdIdle /\ ReachIdle

SpecLU == InitLU /\ [][LUNext]_vars

InitAmd == AmdInit /\ GroupIdle /\ PatIdle /\ LUIdle /\ ReachIdle

\* sp_amd runs to completion once called: no step of it waits on anything.
SpecAmd == InitAmd /\ [][AmdNext]_vars /\ WF_vars(AmdNext)

InitReach == ReachInit /\ GroupIdle /\ PatIdle /\ LUIdle /\ AmdIdle

SpecReach == InitReach /\ [][Reachr]_vars

---------------------------------------------------------------------------
(* Column grouping: claims.                                                *)

\* The group numbers written to col_g.
Groups == {col_g[j] : j \in DOMAIN col_g}

GroupDone == gop \in {"column_grouping", "column_grouping2",
                      "get_column_grouping"}

\* C7: after any of the three groupers returns, every column has a group
\* number (none is left at -1, each lies in 0..neq-1) and two distinct
\* columns with the same group number have no row in common.
C7_GroupingCorrect ==
  GroupDone =>
    /\ DOMAIN col_g = 0..(G.n - 1)
    /\ \A j \in 0..(G.n - 1) : col_g[j] \in 0..(G.n - 1)
    /\ \A j1, j2 \in 0..(G.n - 1) :
         (j1 # j2 /\ col_g[j1] = col_g[j2])
           => ColRows(G, j1) \cap ColRows(G, j2) = {}

\* C7 witness: a grouper has run on a pattern where two non-empty columns
\* share a group and two other columns had to be kept apart.
C7_Witness ==
  /\ GroupDone
  /\ \E j1, j2 \in 0..(G.n - 1) :
       /\ j1 # j2 /\ col_g[j1] = col_g[j2]
       /\ ColRows(G, j1) # {} /\ ColRows(G, j2) # {}
  /\ \E j1, j2 \in 0..(G.n - 1) :
       /\ col_g[j1] # col_g[j2]
       /\ ColRows(G, j1) \cap ColRows(G, j2) # {}

\* C8 as claimed: the value returned is the number of distinct group
\* numbers written to col_g.
C8_ReturnsGroupCount == GroupDone => gret = Cardinality(Groups)

\* C8 amended: the value returned is the highest group number written to
\* col_g, which is the number of groups minus one (-1 for no column); the
\* group numbers are 0..gret without a gap.
C8_ReturnsLastGroup ==
  GroupDone => (gret = Cardinality(Groups) - 1 /\ Groups = 0..gret)

\* C8 witness: a grouper has returned for a pattern that needs more than one
\* group.
C8_Witness == GroupDone /\ Cardinality(Groups) >= 2 /\ gret >= 1

---------------------------------------------------------------------------
(* get_pattern_A_plus_AT: claims.                                          *)

PatDone == pop = "get_pattern_A_plus_AT"

\* The rows listed in column j of the pattern handed back, as a sequence.
CCol(j) == [i \in 1..(C.Cp[j + 1] - C.Cp[j]) |-> C.Ci[C.Cp[j] + i - 1]]

SeqRange(s) == {s[i] : i \in DOMAIN s}

\* A has an entry at (i, j).
HasEntry(P, i, j) == i \in ColRows(P, j)

Example3x3 == Pattern(3, [j \in 0..2 |-> <<<<0, 1>>, <<0>>, <<2>>>>[j + 1]])

\* C10 as claimed: for that pattern column 0 = rows {0,1}, column 1 = rows
\* {0,1}, column 2 = rows {2}.
C10_ExampleAsClaimed ==
  (PatDone /\ Apat = Example3x3) =>
    /\ SeqRange(CCol(0)) = {0, 1}
    /\ SeqRange(CCol(1)) = {0, 1}
    /\ SeqRange(CCol(2)) = {2}

\* C10 amended: for that pattern column 0 = rows {0,1}, column 1 = rows {0}
\* (A has no entry in row 1 other than (1,0), whose transpose (0,1) is
\* already in column 1), column 2 = rows {2}.
C10_Example ==
  (PatDone /\ Apat = Example3x3) =>
    /\ CCol(0) = <<0, 1>>
    /\ CCol(1) = <<0>>
    /\ CCol(2) = <<2>>

\* C10 witness: the function has run on the example.
C10_Witness == PatDone /\ Apat = Example3x3 /\ C.Cp[3] = 4

---------------------------------------------------------------------------
(* LU: claims.                                                             *)

RECURSIVE RowSum(_, _, _, _)
\* The sum over j of A(i, j) * x[j], columns j..n-1.
RowSum(M, x, i, j) ==
  IF ~(j < M.n) THEN QZero
  ELSE QAdd(QMul(Entry(M, i, j), x[j]), RowSum(M, x, i, j + 1))

RECURSIVE Det(_, _, _)
RECURSIVE DetRow(_, _, _, _)
\* The determinant of the rows and columns of A listed, by expansion along
\* the first row listed (the minor is on the columns without the j-th).
Det(M, rows, cols) ==
  IF rows = <<>> THEN QOne ELSE DetRow(M, rows, cols, 1)

DetRow(M, rows, cols, j) ==
  IF j > Len(cols) THEN QZero
  ELSE QAdd(QMul(IF j % 2 = 1 THEN QOne ELSE QInt(-1),
                 QMul(Entry(M, Head(rows), cols[j]),
                      Det(M, Tail(rows),
                          SubSeq(cols, 1, j - 1)
                            \o SubSeq(cols, j + 1, Len(cols))))),
            DetRow(M, rows, cols, j + 1))

Nonsingular(M) ==
  Det(M, [i \in 1..M.n |-> i - 1], [i \in 1..M.n |-> i - 1]) # QZero

\* C1: when sp_lusolve has run on the factors a successful sp_ludcmp of a
\* nonsingular matrix A has just left, the x it produced satisfies A x = b
\* (the arithmetic of the model is exact, so the tolerance is zero), with a
\* null q and with a permutation q.
C1_RoundTrip ==
  [][(lop = "sp_ludcmp" /\ lop' = "sp_lusolve" /\ Nonsingular(mat))
       => [i \in 0..(mat'.n - 1) |-> RowSum(mat', sol', i, 0)] = rhs']_vars

\* The factors L and U of two contexts agree: the same column pointers,
\* and the same row indices and values in the entries they delimit.
SameFactors(N1, N2) ==
  /\ N1.L.Ap = N2.L.Ap
  /\ N1.U.Ap = N2.U.Ap
  /\ \A pos \in 0..(N1.L.Ap[N1.n] - 1) :
       N1.L.Ai[pos] = N2.L.Ai[pos] /\ N1.L.Ax[pos] = N2.L.Ax[pos]
  /\ \A pos \in 0..(N1.U.Ap[N1.n] - 1) :
       N1.U.Ai[pos] = N2.U.Ai[pos] /\ N1.U.Ax[pos] = N2.U.Ax[pos]

\* sp_ludcmp on the matrix mat with a fresh context of column order q.
FromScratch(q) == sp_ludcmp(sp_num_alloc(mat.n, q), mat, tol)

\* C2 as stated: no column order is in use, and after sp_refactor has run
\* on A2 the factors L and U are those sp_ludcmp computes for A2 from
\* scratch (for an A2 it factorizes).
C2_RefactorAsFromScratch ==
  (lop = "sp_refactor" /\ num.q = <<>> /\ FromScratch(<<>>).ret = SUCCESS)
    => SameFactors(num, FromScratch(<<>>).N)

\* C2: after sp_refactor has run on A2, the factors L and U are those
\* sp_ludcmp computes for A2 from scratch with the same column order and
\* the same pivtol, whenever that factorization succeeds and chooses the
\* pivot rows p the context holds (those chosen for A1).
C2_RefactorSamePivots ==
  lop = "sp_refactor"
    => ((FromScratch(num.q).ret = SUCCESS /\ FromScratch(num.q).N.p = num.p)
          => SameFactors(num, FromScratch(num.q).N))

\* C2 witness: sp_refactor has run on rewritten values, with a column
\* permutation and a pivot order that exchanges rows, the factorization
\* from scratch chooses the same pivot rows, and L has an entry below the
\* diagonal.
C2_Witness ==
  /\ lop = "sp_refactor"
  /\ num.q # <<>>
  /\ num.p[0] # 0
  /\ FromScratch(num.q).ret = SUCCESS
  /\ FromScratch(num.q).N.p = num.p
  /\ num.L.Ap[1] = 2
  /\ num.L.Ax[1] # QZero

\* A has a column without a nonzero: no entry, or stored zeros only.
ZeroColumn(M) ==
  \E j \in 0..(M.n - 1) : \A pos \in ColRange(M.Ap, j) : M.Ax[pos] = QZero

\* C3: sp_ludcmp returns failure for every matrix with an all-zero column,
\* whatever the column order q and pivtol.
C3_ZeroColumnFails ==
  (lop = "sp_ludcmp" /\ ZeroColumn(mat)) => fact.ret = FAILURE

\* C3 witness: sp_ludcmp has run with pivtol 0 and a column permutation on
\* a matrix whose only all-zero column holds stored zeros, and has failed
\* at the second step.
C3_Witness ==
  /\ lop = "sp_ludcmp"
  /\ tol = QZero
  /\ num.q # <<>>
  /\ ZeroColumn(mat)
  /\ \A j \in 0..(mat.n - 1) : ColRange(mat.Ap, j) # {}
  /\ fact.ret = FAILURE
  /\ fact.k = 1

\* C4 as stated: a call of sp_ludcmp that returns failure, on a context
\* that holds a successful factorization, leaves topvec and p as they were
\* before the call.
C4_SymbolicStateKept ==
  [][(Valid /\ lop' = "sp_ludcmp" /\ fact'.ret = FAILURE)
       => (num'.topvec = num.topvec /\ num'.p = num.p)]_vars

\* C4: a call of sp_ludcmp that returns failure at step k leaves topvec[j]
\* for j > k and p[j] for j >= k as they were before the call (topvec[0..k]
\* and p[0..k-1] hold what the steps run have written).
C4_SymbolicStateKeptFromFailure ==
  [][(lop' = "sp_ludcmp" /\ fact'.ret = FAILURE)
       => \A j \in 0..(num.n - 1) :
            /\ j > fact'.k => num'.topvec[j] = num.topvec[j]
            /\ j >= fact'.k => num'.p[j] = num.p[j]]_vars

\* C4 witness: sp_ludcmp has failed at its second step on a context that
\* held a successful factorization, whose p[1] it still holds.
C4_Witness ==
  /\ lop = "sp_ludcmp"
  /\ hadfact
  /\ fact.ret = FAILURE
  /\ fact.k = 1
  /\ num.p[1] \in 0..(num.n - 1)

\* C5: once sp_ludcmp has succeeded, and after the sp_refactor and
\* sp_lusolve calls that follow, p[pinv[i]] = i for every row i and
\* pinv[p[k]] = k for every step k.
C5_PermutationInverse ==
  Valid =>
    \A i \in 0..(num.n - 1) :
      /\ num.pinv[i] \in 0..(num.n - 1)
      /\ num.p[i] \in 0..(num.n - 1)
      /\ num.p[num.pinv[i]] = i
      /\ num.pinv[num.p[i]] = i

\* C5 witness: sp_refactor has run on a factorization that exchanges rows.
C5_Witness ==
  /\ Valid
  /\ lop = "sp_refactor"
  /\ num.p[0] = 1
  /\ num.pinv[1] = 0

---------------------------------------------------------------------------
(* sp_amd.                                                                 *)

\* The first n entries of P (the array last of sp_amd) are a bijection on
\* 0..n-1.
AmdBijection ==
  /\ \A i \in 0..(amd.n - 1) : amd.last[i] \in 0..(amd.n - 1)
  /\ \A i, j \in 0..(amd.n - 1) : amd.last[i] = amd.last[j] => i = j

\* C6: for every symmetric pattern without diagonal on n nodes, the empty
\* and the fully dense one included, sp_amd terminates, and from its return
\* on the first n entries of its output P are a bijection on 0..n-1.
C6_AmdValid == <>[](apc = "return" /\ AmdBijection)

\* sp_amd has returned for a pattern on MaxNodes nodes after eliminating
\* nodes in its main loop, some of them absorbed into another (nv = 0),
\* and P is not the identity.
C6_Witness ==
  /\ apc = "return"
  /\ amd.n = MaxNodes
  /\ amd.k # -1
  /\ \E i \in 0..(amd.n - 1) : amd.nv[i] = 0
  /\ \E i \in 0..(amd.n - 1) : amd.last[i] # i
  /\ AmdBijection

---------------------------------------------------------------------------
(* The reach of a column: claims.                                          *)

RECURSIVE Reach(_, _, _, _)
\* The nodes reached from the nodes S: S, and with a node j of it that has
\* pinv[j] >= 0 the row indices stored in column pinv[j] of G.
Reach(Gp, Gi, pinv, S) ==
  LET T == S \cup {Gi[q] : q \in UNION {ColRange(Gp, pinv[j]) :
                                          j \in {i \in S : pinv[i] >= 0}}}
  IN  IF T = S THEN S ELSE Reach(Gp, Gi, pinv, T)

\* C11: after reachr, xik[top..n) holds each node reached from the row
\* indices of column k of B exactly once and no other node, and a node
\* stands at a lower position than every other node it reaches.
C11_ReachTopological ==
  Rout.k >= 0 =>
    LET at == Rout.top..(Rg.n - 1)
    IN  /\ Rout.top \in 0..Rg.n
        /\ {Rout.xik[q] : q \in at}
             = Reach(Rg.Gp, Rg.Gi, Rg.pinv, ColRows(Rb, Rout.k))
        /\ \A a, b \in at : Rout.xik[a] = Rout.xik[b] => a = b
        /\ \A a, b \in at :
             (a # b /\ Rout.xik[b] \in Reach(Rg.Gp, Rg.Gi, Rg.pinv,
                                             {Rout.xik[a]})) => a < b

\* A reach of three nodes in a chain: the first reaches the second through
\* one column of G and the second the third through another.
C11_Witness ==
  /\ Rout.k >= 0
  /\ Rout.top = 0
  /\ Rg.n = 3
  /\ Cardinality(ColRows(Rb, Rout.k)) = 1
  /\ Rg.pinv[Rout.xik[0]] >= 0
  /\ Rg.pinv[Rout.xik[1]] >= 0
  /\ Rout.xik[2] \notin ColRows([Ap |-> Rg.Gp, Ai |-> Rg.Gi],
                                Rg.pinv[Rout.xik[0]])

\* C12: reachr leaves Gp as it found it, and no entry of Gp is negative
\* before or after a call.
C12_MarksRestored ==
  [][Reachr => (Rg'.Gp = Rg.Gp /\ \A j \in 0..Rg.n :
                                    Rg.Gp[j] >= 0 /\ Rg'.Gp[j] >= 0)]_vars

\* A reachr that marked every node, columns of G stored before each node
\* but the first: every Gp[j] was flipped, the nonzero ones to below -2.
C12_Witness ==
  /\ Rout.k >= 0
  /\ Rout.top = 0
  /\ Rg.n >= 2
  /\ \A j \in 1..(Rg.n - 1) : Rg.Gp[j] > 0

---------------------------------------------------------------------------
(* sp_ludcmp, sp_refactor: the factors.                                    *)

\* C13: while the context holds a successful factorization (after
\* sp_ludcmp or sp_refactor), column k of U ends with row index k and
\* holds row indices below k before it, and column k of L begins with row
\* index k and the value 1 and holds row indices above k after it.
C13_Triangular ==
  Valid =>
    \A k \in 0..(num.n - 1) :
      /\ num.U.Ap[k] < num.U.Ap[k + 1]
      /\ num.U.Ai[num.U.Ap[k + 1] - 1] = k
      /\ \A q \in ColRange(num.U.Ap, k) :
           q # num.U.Ap[k + 1] - 1 => num.U.Ai[q] < k
      /\ num.L.Ap[k] < num.L.Ap[k + 1]
      /\ num.L.Ai[num.L.Ap[k]] = k
      /\ num.L.Ax[num.L.Ap[k]] = QOne
      /\ \A q \in ColRange(num.L.Ap, k) :
           q # num.L.Ap[k] => num.L.Ai[q] > k

\* A refactorization that follows a factorization which pivoted on row 1
\* first, with an entry below the diagonal of L and one above that of U.
C13_Witness ==
  /\ Valid
  /\ lop = "sp_refactor"
  /\ num.p[0] = 1
  /\ num.L.Ap[1] - num.L.Ap[0] = 2
  /\ num.U.Ap[2] - num.U.Ap[1] = 2

\* C14: sp_refactor, run on a context that holds a successful
\* factorization of a matrix with the same pattern, leaves pinv, p, topvec,
\* xi and the column pointers and row indices of L and U as they were;
\* every sp_refactor does, the ones that follow another included.
C14_RefactorKeepsPattern ==
  [][Refactor =>
       /\ num'.pinv = num.pinv
       /\ num'.p = num.p
       /\ num'.topvec = num.topvec
       /\ num'.xi = num.xi
       /\ num'.q = num.q
       /\ num'.L.Ap = num.L.Ap
       /\ num'.L.Ai = num.L.Ai
       /\ num'.U.Ap = num.U.Ap
       /\ num'.U.Ai = num.U.Ai]_vars

\* A refactorization with a column order in use, rows pivoted out of
\* order, and a reach of two nodes at the second step.
C14_Witness ==
  /\ lop = "sp_refactor"
  /\ num.q # <<>>
  /\ num.pinv[0] = 1
  /\ num.topvec[1] = 0
  /\ num.U.Ap[2] = 3
  /\ num.L.Ap[2] = 3

\* C15: when sp_ludcmp has returned success, the pivot row p[k] of every
\* step k is a row of the reach xi[k][topvec[k]..n) of that step, and the
\* value stored for it on the diagonal of U is not zero.
C15_NoZeroPivot ==
  (lop = "sp_ludcmp" /\ Valid) =>
    \A k \in 0..(num.n - 1) :
      /\ num.pinv[num.p[k]] = k
      /\ \E q \in num.topvec[k]..(num.n - 1) : num.xi[k][q] = num.p[k]
      /\ num.U.Ax[num.U.Ap[k + 1] - 1] # QZero

====
